---- MODULE Spec2Model ----
(***************************************************************************)
(* Model of the unilateral lymphatic spread model (lymph.Unilateral), its  *)
(* edges (lymph.edge.Edge) and nodes (lymph.node.Node).                    *)
(*                                                                         *)
(* Probabilities are exact fractions.  A parameter value v stands for the  *)
(* real number v / Unit, so the closed interval [0,1] of the program is    *)
(* 0..Unit here.  A factor returned by an edge is a numerator over         *)
(* FactorDen = Unit * Unit (the product spread_prob * micro_mod needs two  *)
(* units), and an entry of the transition matrix is a numerator over       *)
(* FactorDen ^ (number of edges).                                          *)
(***************************************************************************)
EXTENDS Integers, Sequences, FiniteSets, TLC

VARIABLES
    allowed_states,     \* allowed states of every LNL: <<0,1>> or <<0,1,2>>
    tumors,             \* Unilateral.tumors: names of the tumors
    lnls,               \* Unilateral.lnls: names of the LNLs in graph order
    tumor_edges,        \* Unilateral.tumor_edges
    lnl_edges,          \* Unilateral.lnl_edges
    growth_edges,       \* Unilateral.growth_edges
    edge_params,        \* Unilateral.edge_params: the parameter lookup
    spread_prob,        \* Edge._spread_prob of every edge
    micro_mod,          \* Edge._micro_mod of every edge
    diag_time_dists,    \* T-stage -> parameter of its diagnose-time distribution
    lnl_state,          \* LymphNodeLevel.state of every LNL
    transition_matrix,  \* the cached transition matrix, or NoMatrix
    modalities,         \* Unilateral.modalities, in the order of insertion
    obs_list,           \* Unilateral._obs_list: the cached list, or NoMatrix
    observation_matrix, \* the cached observation matrix, or NoMatrix
    patient_data,       \* Unilateral._patient_data: the stored table, if any
    diagnose_matrices,  \* Unilateral._diagnose_matrices, if it is set
    last                \* the call in progress: its arguments and its outcome

\* the graph, fixed by the constructor
topology == <<allowed_states, tumors, lnls, tumor_edges, lnl_edges,
              growth_edges, edge_params>>

\* the modalities, the patient data and what is derived from them
diagnostics == <<modalities, obs_list, observation_matrix, patient_data,
                 diagnose_matrices>>

vars == <<topology, spread_prob, micro_mod, diag_time_dists, lnl_state,
          transition_matrix, diagnostics, last>>

-----------------------------------------------------------------------------
(* Bounds of the model *)

\* the grid of the fractions: a value v stands for v / Unit
Unit == 2
\* most positional arguments of one assign_params call
MaxArgs == 2
\* most keyword arguments of one assign_params call
MaxKw == 2
\* most entries of the given_params of one likelihood call
MaxGiven == 1

-----------------------------------------------------------------------------
(* Small helpers *)

RECURSIVE Pow(_, _)
Pow(b, n) == IF n = 0 THEN 1 ELSE b * Pow(b, n - 1)

Min(a, b) == IF a <= b THEN a ELSE b

Range(s) == {s[i] : i \in 1..Len(s)}

RECURSIVE Prod(_)
\* product of the numbers of a sequence
Prod(s) == IF s = <<>> THEN 1 ELSE Head(s) * Prod(Tail(s))

RECURSIVE Sum(_)
\* sum of the numbers of a sequence
Sum(s) == IF s = <<>> THEN 0 ELSE Head(s) + Sum(Tail(s))

RECURSIVE Flatten(_)
\* concatenation of a sequence of sequences
Flatten(ss) == IF ss = <<>> THEN <<>> ELSE Head(ss) \o Flatten(Tail(ss))

\* the sequences over S of length lo..hi
SeqsBetween(S, lo, hi) == UNION {[1..n -> S] : n \in lo..hi}

\* a sequence has no element twice
Distinct(s) == \A i, j \in 1..Len(s) : i # j => s[i] # s[j]

-----------------------------------------------------------------------------
(* The graph: nodes and edges *)

\* T -> II -> III
GraphChain ==
    << [type |-> "tumor", name |-> "T",   ends |-> <<"II">>],
       [type |-> "lnl",   name |-> "II",  ends |-> <<"III">>],
       [type |-> "lnl",   name |-> "III", ends |-> <<>>] >>

\* T -> II, T -> III, II -> III
GraphTriangle ==
    << [type |-> "tumor", name |-> "T",   ends |-> <<"II", "III">>],
       [type |-> "lnl",   name |-> "II",  ends |-> <<"III">>],
       [type |-> "lnl",   name |-> "III", ends |-> <<>>] >>

\* T -> II
GraphSingle ==
    << [type |-> "tumor", name |-> "T",  ends |-> <<"II">>],
       [type |-> "lnl",   name |-> "II", ends |-> <<>>] >>

Binary == <<0, 1>>
Trinary == <<0, 1, 2>>

RECURSIVE NamesOfType(_, _)
NamesOfType(g, t) ==
    IF g = <<>> THEN <<>>
    ELSE (IF Head(g).type = t THEN <<Head(g).name>> ELSE <<>>)
         \o NamesOfType(Tail(g), t)

\* init_nodes: the tumors and the LNLs in the order of the graph mapping
init_tumors(g) == NamesOfType(g, "tumor")
init_lnls(g) == NamesOfType(g, "lnl")

is_binary == Len(allowed_states) = 2
is_trinary == Len(allowed_states) = 3

\* __init__: the tumor's state defaults to the last allowed state
tumor_state == allowed_states[Len(allowed_states)]

Edge(parent, child) == [parent |-> parent, child |-> child]

is_growth(e) == e.parent = e.child

\* init_edges giving a growth edge to every LNL, binary or trinary
EdgesOf_growing_binary(entry, states) ==
    (IF entry.type = "lnl"
        THEN <<Edge(entry.name, entry.name)>> ELSE <<>>)
    \o [i \in 1..Len(entry.ends) |-> Edge(entry.name, entry.ends[i])]

\* init_edges: the edges of one entry of the mapping in creation order; a
\* trinary LNL gets its growth edge before its outgoing edges
EdgesOf(entry, states) ==
    (IF entry.type = "lnl" /\ Len(states) = 3
        THEN <<Edge(entry.name, entry.name)>> ELSE <<>>)
    \o [i \in 1..Len(entry.ends) |-> Edge(entry.name, entry.ends[i])]

created_edges(g, states) ==
    Flatten([i \in 1..Len(g) |-> EdgesOf(g[i], states)])

\* init_edges: a new edge goes to growth_edges, tumor_edges or lnl_edges
init_growth_edges(g, states) == SelectSeq(created_edges(g, states), is_growth)
init_tumor_edges(g, states) ==
    SelectSeq(created_edges(g, states),
              LAMBDA e : ~is_growth(e) /\ e.parent \in Range(init_tumors(g)))
init_lnl_edges(g, states) ==
    SelectSeq(created_edges(g, states),
              LAMBDA e : ~is_growth(e) /\ e.parent \notin Range(init_tumors(g)))

\* Unilateral.edges
edges == tumor_edges \o lnl_edges \o growth_edges

\* Node.inc: the incoming edges of a node
inc(name) == SelectSeq(edges, LAMBDA e : e.child = name)

-----------------------------------------------------------------------------
(* The state list *)

num_states == Pow(Len(allowed_states), Len(lnls))

\* change_base: digit k (1 = most significant) of i written with `length'
\* digits in base `base'
Digit(i, base, length, k) == (i \div Pow(base, length - k)) % base

\* _gen_state_list: state_list[i] for i in 0..num_states-1, one entry per LNL
state_list(i) ==
    [k \in 1..Len(lnls) |-> Digit(i, Len(allowed_states), Len(lnls), k)]

StateIdx == 0..(num_states - 1)

-----------------------------------------------------------------------------
(* Edge: the probability of spread per time step *)

FactorDen == Unit * Unit

\* the state of an edge's start or end node, the LNL states being st
NodeState(st, name) ==
    IF name \in Range(tumors) THEN tumor_state ELSE st[name]

\* comp_spread_prob leaving the microscopic modifier out of the spread from
\* a microscopically involved parent
comp_spread_prob_without_micro_mod(e, sp, mm, st, new_state) ==
    LET start_state == NodeState(st, e.parent)
        end_state == NodeState(st, e.child)
        p == sp[e]
    IN  IF is_binary /\ end_state = 0
            THEN (IF new_state = 1 THEN p * Unit ELSE (Unit - p) * Unit)
        ELSE IF start_state = 1 /\ end_state = 1 /\ is_growth(e)
            THEN (IF new_state = 2 THEN p * Unit ELSE (Unit - p) * Unit)
        ELSE IF end_state = 0 /\ ~is_growth(e)
            THEN (IF new_state = 1 THEN p * Unit ELSE (Unit - p) * Unit)
        ELSE FactorDen

\* comp_spread_prob letting a growth edge act on a healthy LNL as well
comp_spread_prob_growth_from_healthy(e, sp, mm, st, new_state) ==
    LET start_state == NodeState(st, e.parent)
        end_state == NodeState(st, e.child)
        p == sp[e]
        mu == mm[e]
    IN  IF is_binary /\ end_state = 0
            THEN (IF new_state = 1 THEN p * Unit ELSE (Unit - p) * Unit)
        ELSE IF start_state = 1 /\ end_state = 0 /\ ~is_growth(e)
            THEN (IF new_state = 1 THEN p * mu ELSE FactorDen - p * mu)
        ELSE IF start_state <= 1 /\ end_state <= 1 /\ is_growth(e)
            THEN (IF new_state = 2 THEN p * Unit ELSE (Unit - p) * Unit)
        ELSE IF end_state = 0 /\ ~is_growth(e)
            THEN (IF new_state = 1 THEN p * Unit ELSE (Unit - p) * Unit)
        ELSE FactorDen

\* Edge.comp_spread_prob: the factor (over FactorDen) with which the edge e
\* lets its child go to new_state, given the states st of the LNLs, the
\* spread probabilities sp and the microscopic modifiers mm
comp_spread_prob(e, sp, mm, st, new_state) ==
    LET start_state == NodeState(st, e.parent)
        end_state == NodeState(st, e.child)
        p == sp[e]
        mu == mm[e]
    IN  IF is_binary /\ end_state = 0
            THEN (IF new_state = 1 THEN p * Unit ELSE (Unit - p) * Unit)
        ELSE IF start_state = 1 /\ end_state = 0 /\ ~is_growth(e)
            THEN (IF new_state = 1 THEN p * mu ELSE FactorDen - p * mu)
        ELSE IF start_state = 1 /\ end_state = 1 /\ is_growth(e)
            THEN (IF new_state = 2 THEN p * Unit ELSE (Unit - p) * Unit)
        ELSE IF end_state = 0 /\ ~is_growth(e)
            THEN (IF new_state = 1 THEN p * Unit ELSE (Unit - p) * Unit)
        ELSE FactorDen

\* LymphNodeLevel.comp_trans_prob: the product of the factors of the incoming
\* edges of the LNL (its growth edge included); over FactorDen ^ Len(inc(name))
comp_trans_prob(name, sp, mm, st, new_state) ==
    Prod([i \in 1..Len(inc(name)) |->
            comp_spread_prob(inc(name)[i], sp, mm, st, new_state)])

\* Unilateral.comp_transition_prob: the product over the LNLs (the early exit
\* on a zero product does not change the value); over TransDen
comp_transition_prob(sp, mm, st, newstate) ==
    Prod([k \in 1..Len(lnls) |->
            comp_trans_prob(lnls[k], sp, mm, st, newstate[k])])

\* every edge has exactly one child, so a transition probability is a product
\* of Len(edges) factors
TransDen == Pow(FactorDen, Len(edges))

\* the LNL states of the state list entry i, by LNL name
StateByName(i) ==
    [n \in Range(lnls) |->
        state_list(i)[CHOOSE k \in 1..Len(lnls) : lnls[k] = n]]

\* matrix.Transition: T[i][j] is the probability to go from state_list[i] to
\* state_list[j]
generate_transition(sp, mm) ==
    [i \in StateIdx |-> [j \in StateIdx |->
        comp_transition_prob(sp, mm, StateByName(i), state_list(j))]]

-----------------------------------------------------------------------------
(* Parameters: the edges' setters, the parameter lookup, assign_params *)

NoError == "none"
\* what the setters of an edge raise on a value outside [0,1]
ValueError == "ValueError"
\* what the lookup of a key that names no parameter raises
UnknownKeyError == "ValueError"
\* what reading diagnose_matrices or patient_data raises before any load
AttributeError == "AttributeError"

\* no cached transition matrix
NoMatrix == <<>>

\* the part of the model that assign_params works on: the parameters, the
\* cached matrix, the writes and evictions done so far, the error raised
Model(sp, mm, dists, tm) ==
    [spread_prob |-> sp, micro_mod |-> mm, dists |-> dists, tm |-> tm,
     events |-> <<>>, err |-> NoError]

\* the setter of spread_prob storing whatever it is given
set_spread_prob_unchecked(m, e, v) ==
    [m EXCEPT !.spread_prob[e] = v, !.events = Append(@, "write")]

\* Edge.spread_prob setter; float() of a number keeps its value
set_spread_prob(m, e, v) ==
    LET new_spread_prob == v
    IN  IF ~(0 <= new_spread_prob /\ new_spread_prob <= Unit)
            THEN [m EXCEPT !.err = ValueError]
            ELSE [m EXCEPT !.spread_prob[e] = new_spread_prob,
                           !.events = Append(@, "write")]

\* the setter of micro_mod storing into the field of spread_prob
set_micro_mod_into_spread_prob(m, e, v) ==
    LET new_micro_mod == v
    IN  IF ~(0 <= new_micro_mod /\ new_micro_mod <= Unit)
            THEN [m EXCEPT !.err = ValueError]
            ELSE [m EXCEPT !.spread_prob[e] = new_micro_mod,
                           !.events = Append(@, "write")]

\* Edge.micro_mod setter
set_micro_mod(m, e, v) ==
    LET new_micro_mod == v
    IN  IF ~(0 <= new_micro_mod /\ new_micro_mod <= Unit)
            THEN [m EXCEPT !.err = ValueError]
            ELSE [m EXCEPT !.micro_mod[e] = new_micro_mod,
                           !.events = Append(@, "write")]

\* del model.transition_matrix
del_transition_matrix(m) ==
    [m EXCEPT !.tm = NoMatrix, !.events = Append(@, "evict")]

\* Distribution.update: the parameter of a parametric distribution, a
\* probability
dist_update(m, stage, v) ==
    IF ~(0 <= v /\ v <= Unit)
        THEN [m EXCEPT !.err = ValueError]
        ELSE [m EXCEPT !.dists[stage] = v, !.events = Append(@, "write")]

spread_key(e) == "spread_" \o e.parent \o "_to_" \o e.child
micro_key(e) == "micro_" \o e.parent \o "_to_" \o e.child
growth_key(e) == "growth_" \o e.parent

Param(name, e, attr) == [name |-> name, edge |-> e, attr |-> attr]

\* params.Lookup: the edge parameters in the order of assign_params'
\* positional arguments: tumor spread, LNL spread (each followed by its
\* microscopic modifier when trinary), growth
init_edge_params(t_edges, l_edges, g_edges, states) ==
    [i \in 1..Len(t_edges) |->
        Param(spread_key(t_edges[i]), t_edges[i], "spread_prob")]
    \o Flatten([i \in 1..Len(l_edges) |->
        <<Param(spread_key(l_edges[i]), l_edges[i], "spread_prob")>>
        \o (IF Len(states) = 3
              THEN <<Param(micro_key(l_edges[i]), l_edges[i], "micro_mod")>>
              ELSE <<>>)])
    \o [i \in 1..Len(g_edges) |->
        Param(growth_key(g_edges[i]), g_edges[i], "spread_prob")]

edge_param_names == {edge_params[i].name : i \in 1..Len(edge_params)}

edge_param(key) ==
    edge_params[CHOOSE i \in 1..Len(edge_params) : edge_params[i].name = key]

\* Param.get
Param_get(m, prm) ==
    IF prm.attr = "spread_prob" THEN m.spread_prob[prm.edge]
                                ELSE m.micro_mod[prm.edge]

\* Param.set: sets the value on the edge and then deletes the transition
\* matrix; a value the edge refuses leaves the matrix
Param_set(m, prm, v) ==
    LET m1 == IF prm.attr = "spread_prob"
                 THEN set_spread_prob(m, prm.edge, v)
                 ELSE set_micro_mod(m, prm.edge, v)
    IN  IF m1.err # NoError THEN m1 ELSE del_transition_matrix(m1)

\* the T-stages that get a distribution, in the order of their insertion
Stages == <<"early">>

\* diag_time_dists.keys(), in the order of Stages
dist_names(dists) == SelectSeq(Stages, LAMBDA s : s \in DOMAIN dists)

\* the setters of assign_params' params_access, as <<kind, target>>
params_access(m) ==
    [i \in 1..Len(edge_params) |-> [kind |-> "param", prm |-> edge_params[i],
                                    stage |-> ""]]
    \o [i \in 1..Len(dist_names(m.dists)) |->
            [kind |-> "dist", prm |-> Param("", Edge("", ""), ""),
             stage |-> dist_names(m.dists)[i]]]

RECURSIVE assign_positional(_, _, _)
\* for setter, new_param_value in zip(params_access, new_params_args)
assign_positional(m, access, args) ==
    IF access = <<>> \/ args = <<>> \/ m.err # NoError THEN m
    ELSE LET a == Head(access)
             m1 == IF a.kind = "param" THEN Param_set(m, a.prm, Head(args))
                                       ELSE dist_update(m, a.stage, Head(args))
         IN  assign_positional(m1, Tail(access), Tail(args))

RECURSIVE set_each_spread_prob(_, _, _)
\* for edge in es: edge.spread_prob = value
set_each_spread_prob(m, es, v) ==
    IF es = <<>> \/ m.err # NoError THEN m
    ELSE set_each_spread_prob(set_spread_prob(m, Head(es), v), Tail(es), v)

RECURSIVE set_each_micro_mod(_, _, _)
\* for edge in es: edge.micro_mod = value
set_each_micro_mod(m, es, v) ==
    IF es = <<>> \/ m.err # NoError THEN m
    ELSE set_each_micro_mod(set_micro_mod(m, Head(es), v), Tail(es), v)

\* the edges the key "growth" writes
growth_targets == growth_edges

\* the key "micro_mod" written to every edge of the graph
micro_mod_targets_all_edges == edges

\* the edges the key "micro_mod" writes
micro_mod_targets == lnl_edges

\* the loop's iteration deleting the transition matrix before a per-edge key
\* is written
assign_keyword_evict_first(m, key, value) ==
    IF key \in DOMAIN m.dists THEN dist_update(m, key, value)
    ELSE IF key = "growth" THEN set_each_spread_prob(m, growth_targets, value)
    ELSE IF key = "micro_mod" THEN set_each_micro_mod(m, micro_mod_targets, value)
    ELSE IF key \in edge_param_names
        THEN Param_set(del_transition_matrix(m), edge_param(key), value)
    ELSE [m EXCEPT !.err = UnknownKeyError]

\* one iteration of assign_params' loop over the keyword arguments
assign_keyword(m, key, value) ==
    IF key \in DOMAIN m.dists THEN dist_update(m, key, value)
    ELSE IF key = "growth" THEN set_each_spread_prob(m, growth_targets, value)
    ELSE IF key = "micro_mod" THEN set_each_micro_mod(m, micro_mod_targets, value)
    ELSE IF key \in edge_param_names THEN Param_set(m, edge_param(key), value)
    ELSE [m EXCEPT !.err = UnknownKeyError]

RECURSIVE assign_keywords(_, _)
\* for key, value in new_params_kwargs.items(); kwargs is a sequence of
\* <<key, value>> in the order of the dict
assign_keywords(m, kwargs) ==
    IF kwargs = <<>> \/ m.err # NoError THEN m
    ELSE assign_keywords(assign_keyword(m, Head(kwargs)[1], Head(kwargs)[2]),
                         Tail(kwargs))

\* Unilateral.assign_params
assign_params(m, args, kwargs) ==
    assign_keywords(assign_positional(m, params_access(m), args), kwargs)

\* Unilateral.get_params(as_dict=True), as a sequence of <<key, value>>
get_params(m) ==
    [i \in 1..Len(edge_params) |->
        <<edge_params[i].name, Param_get(m, edge_params[i])>>]
    \o [i \in 1..Len(dist_names(m.dists)) |->
        <<dist_names(m.dists)[i], m.dists[dist_names(m.dists)[i]]>>]

-----------------------------------------------------------------------------
(* Diagnostic modalities, the observation list and the observation matrix *)

\* the names of the modalities that are used
ModalityNames == <<"CT", "PET">>

\* <<specificity, sensitivity>> of a modality, over Unit
SpSn == {<<Unit, Unit - 1>>, <<Unit - 1, Unit>>}

Modality(name, spsn) == [name |-> name, spec |-> spsn[1], sens |-> spsn[2]]

\* an observation that is missing in the patient's row
Missing == 2

\* Modality.confusion_matrix[obs, state] of a clinical modality, over Unit:
\* the specificity for a healthy LNL, the sensitivity for an involved one
\* whatever the degree of involvement; every column sums to Unit
confusion_matrix(modality, obs, state) ==
    IF state = 0
        THEN (IF obs = 0 THEN modality.spec ELSE Unit - modality.spec)
        ELSE (IF obs = 1 THEN modality.sens ELSE Unit - modality.sens)

\* LymphNodeLevel.comp_obs_prob: a missing observation gives factor 1
comp_obs_prob(state, obs, modality) ==
    IF obs = Missing THEN Unit ELSE confusion_matrix(modality, obs, state)

modality_names(mods) == [k \in 1..Len(mods) |-> mods[k].name]

\* model.modalities[name] = spsn: a known name is replaced in place, a new one
\* is appended
set_modality(mods, name, spsn) ==
    IF name \in Range(modality_names(mods))
        THEN [k \in 1..Len(mods) |->
                IF mods[k].name = name THEN Modality(name, spsn) ELSE mods[k]]
        ELSE Append(mods, Modality(name, spsn))

\* del model.modalities[name]
del_modality(mods, name) == SelectSeq(mods, LAMBDA m : m.name # name)

\* the number of entries of one observation: one per LNL and modality
obs_len(mods) == Len(mods) * Len(lnls)

\* _gen_obs_list with every digit taken from the first modality's block
gen_obs_list_first_modality(mods) ==
    [i \in 1..Pow(2, obs_len(mods)) |->
        [c \in 1..obs_len(mods) |->
            LET j == (c - 1) \div Len(mods)
            IN  Digit(i - 1, 2, obs_len(mods), j + 1)]]

\* Unilateral._gen_obs_list: row i (from 0) holds at column j * n_obs + k the
\* digit k * len(lnls) + j of i written in base 2
gen_obs_list(mods) ==
    [i \in 1..Pow(2, obs_len(mods)) |->
        [c \in 1..obs_len(mods) |->
            LET j == (c - 1) \div Len(mods)
                k == (c - 1) % Len(mods)
            IN  Digit(i - 1, 2, obs_len(mods), k * Len(lnls) + j + 1)]]

\* Unilateral.obs_list: the stored list when there is one
read_obs_list(cache, mods) ==
    IF cache = NoMatrix THEN gen_obs_list(mods) ELSE cache[1]

\* the denominator of the entries of the observation matrix
ObsDen(mods) == Pow(Unit, obs_len(mods))

\* matrix.Observation: O[i][z] is the product over the LNLs j and the
\* modalities k of the confusion matrix entry of observation z's value for
\* (j, k), given the state of LNL j in state_list[i]
generate_observation(list, mods) ==
    [i \in StateIdx |->
        [z \in 1..Len(list) |->
            Prod([c \in 1..obs_len(mods) |->
                    LET j == (c - 1) \div Len(mods)
                        k == (c - 1) % Len(mods)
                    IN  comp_obs_prob(state_list(i)[j + 1], list[z][c],
                                      mods[k + 1])])]]

\* the matrix a read of observation_matrix returns when the cache holds om
read_observation_matrix(om, list, mods) ==
    IF om = NoMatrix THEN generate_observation(list, mods) ELSE om[1]

-----------------------------------------------------------------------------
(* The states of the LNLs *)

\* the part of the model that assign_states works on
States(st) ==
    [state |-> st, tumors |-> [t \in Range(tumors) |-> tumor_state],
     err |-> NoError]

\* LymphNodeLevel.state setter.  A value is a sequence: <<v>> for a number or
\* for a row of one number, which numpy lets stand for the number itself; a
\* longer row is no allowed state
set_state(s, name, value) ==
    IF Len(value) = 1 /\ value[1] \in Range(allowed_states)
        THEN [s EXCEPT !.state[name] = value[1]]
        ELSE [s EXCEPT !.err = ValueError]

RECURSIVE assign_states_positional(_, _, _)
\* for new_lnl_state, lnl in zip(new_states_args, self.lnls)
assign_states_positional(s, args, names) ==
    IF args = <<>> \/ names = <<>> \/ s.err # NoError THEN s
    ELSE assign_states_positional(set_state(s, Head(names), Head(args)),
                                  Tail(args), Tail(names))

RECURSIVE assign_states_keywords(_, _)
\* for key, value in new_states_kwargs.items(): find_node(key) must be an
\* LNL, any other key is passed over; kwargs is a sequence of <<key, value>>
assign_states_keywords(s, kwargs) ==
    IF kwargs = <<>> \/ s.err # NoError THEN s
    ELSE assign_states_keywords(
             IF Head(kwargs)[1] \in Range(lnls)
                 THEN set_state(s, Head(kwargs)[1], <<Head(kwargs)[2]>>)
                 ELSE s,
             Tail(kwargs))

\* assign_states with the keyword arguments assigned before the positional
assign_states_keywords_first(s, args, kwargs) ==
    assign_states_positional(assign_states_keywords(s, kwargs), args, lnls)

\* Unilateral.assign_states(*new_states_args, **new_states_kwargs)
assign_states(s, args, kwargs) ==
    assign_states_keywords(assign_states_positional(s, args, lnls), kwargs)

\* self.assign_states(state): the row of the state list is passed on as one
\* positional argument
assign_states_row(st, i) == assign_states(States(st), <<state_list(i)>>, <<>>)

\* Unilateral.get_states(as_dict=False)
get_states(st) == [k \in 1..Len(lnls) |-> st[lnls[k]]]

-----------------------------------------------------------------------------
(* Patient data and the diagnose matrices *)

\* a row of a table: CT positive in every LNL, nothing known from PET
CtPositive ==
    [m \in Range(ModalityNames) |->
        [n \in Range(lnls) |-> IF m = "CT" THEN 1 ELSE Missing]]

\* a row of a table: CT negative in the first LNL and positive in the others,
\* PET missing for the first LNL and positive in the others
Mixed ==
    [m \in Range(ModalityNames) |->
        [n \in Range(lnls) |->
            IF n # lnls[1] THEN 1 ELSE IF m = "CT" THEN 0 ELSE Missing]]

Patient(t_stage, diag) == [t_stage |-> t_stage, diag |-> diag]

\* the tables that are loaded: none, one or two patients, of one T-stage or
\* of two
Tables ==
    { <<>>,
      <<Patient("early", CtPositive)>>,
      <<Patient("late", Mixed)>>,
      <<Patient("early", CtPositive), Patient("early", Mixed)>>,
      <<Patient("early", Mixed), Patient("late", CtPositive)>> }

\* set(data[("info", "t_stage")])
t_stages_of(data) == {data[j].t_stage : j \in 1..Len(data)}

\* the rows of a T-stage
rows_of(data, stage) == SelectSeq(data, LAMBDA row : row.t_stage = stage)

\* Unilateral.comp_diagnose_prob: the product over the modalities and the
\* LNLs of the probability to observe the entry of the diagnosis, given the
\* states st of the LNLs; a modality or an LNL the diagnosis does not name
\* is skipped; over ObsDen(mods)
comp_diagnose_prob(st, diag, mods) ==
    Prod([c \in 1..obs_len(mods) |->
            LET k == (c - 1) \div Len(lnls)
                j == (c - 1) % Len(lnls)
            IN  IF mods[k + 1].name \notin DOMAIN diag THEN Unit
                ELSE IF lnls[j + 1] \notin DOMAIN diag[mods[k + 1].name]
                    THEN Unit
                ELSE comp_obs_prob(st[lnls[j + 1]],
                                   diag[mods[k + 1].name][lnls[j + 1]],
                                   mods[k + 1])])

\* a diagnose matrix: its rows, and the modalities it was built with
DiagnoseMatrix(mods, rows) == [modalities |-> mods, rows |-> rows]

\* what load_data works on and leaves behind
Data(mods, list, om, dm, st) ==
    [modalities |-> mods, obs_list |-> list, observation_matrix |-> om,
     diagnose_matrices |-> dm, state |-> st, events |-> <<>>,
     err |-> NoError]

\* Unilateral._gen_diagnose_matrices: the matrix of the stage starts as all
\* ones; then for every row of the state list the states are assigned and
\* every patient's probability is filled in
gen_diagnose_matrices(d, table, stage) ==
    LET stored == IF d.diagnose_matrices = <<>> THEN <<>>
                  ELSE d.diagnose_matrices[1]
        mods == d.modalities
        ones == [i \in StateIdx |-> [j \in 1..Len(table) |-> ObsDen(mods)]]
        first == assign_states_row(d.state, 0)
        filled == [i \in StateIdx |-> [j \in 1..Len(table) |->
                     comp_diagnose_prob(assign_states_row(d.state, i).state,
                                        table[j].diag, mods)]]
    IN  IF first.err # NoError
            THEN [d EXCEPT !.diagnose_matrices =
                               <<(stage :> DiagnoseMatrix(mods, ones))
                                 @@ stored>>,
                           !.err = first.err]
            ELSE [d EXCEPT !.diagnose_matrices =
                               <<(stage :> DiagnoseMatrix(mods, filled))
                                 @@ stored>>,
                           !.state =
                               assign_states_row(d.state,
                                                 num_states - 1).state]

RECURSIVE load_stages(_, _, _, _)
\* load_data's loop over the T-stages of the table, in the order in which
\* the set hands them out; a stage without distribution is warned about
load_stages(d, data, dists, order) ==
    IF order = <<>> \/ d.err # NoError THEN d
    ELSE LET stage == Head(order)
             d1 == gen_diagnose_matrices(d, rows_of(data, stage), stage)
             d2 == IF d1.err = NoError /\ stage \notin DOMAIN dists
                      THEN [d1 EXCEPT !.events = Append(@, "warn_" \o stage)]
                      ELSE d1
         IN  load_stages(d2, data, dists, Tail(order))

\* load_data storing the given modalities only after the matrices are built
load_data_modalities_last(d, dists, data, modality_spsn, mode, order) ==
    IF modality_spsn = <<>> /\ d.modalities = <<>>
        THEN [d EXCEPT !.err = ValueError]
    ELSE LET d1 == [d EXCEPT !.diagnose_matrices = <<>>]
             d2 == IF mode = "HMM" THEN load_stages(d1, data, dists, order)
                   ELSE gen_diagnose_matrices(d1, data, "BN")
         IN  IF modality_spsn = <<>> THEN d2
             ELSE [d2 EXCEPT !.modalities = modality_spsn[1],
                             !.obs_list = NoMatrix,
                             !.observation_matrix = NoMatrix]

\* Unilateral.load_data(data, modality_spsn, mode); modality_spsn is <<>> for
\* None and <<modalities>> otherwise
load_data(d, dists, data, modality_spsn, mode, order) ==
    IF modality_spsn = <<>> /\ d.modalities = <<>>
        THEN [d EXCEPT !.err = ValueError]
    ELSE LET d1 == IF modality_spsn = <<>>
                      THEN [d EXCEPT !.diagnose_matrices = <<>>]
                      ELSE [d EXCEPT !.modalities = modality_spsn[1],
                                     !.obs_list = NoMatrix,
                                     !.observation_matrix = NoMatrix,
                                     !.diagnose_matrices = <<>>]
         IN  IF mode = "HMM" THEN load_stages(d1, data, dists, order)
             ELSE gen_diagnose_matrices(d1, data, "BN")

\* the orders in which the set of T-stages of a table can be iterated
StageOrders(data) ==
    {o \in SeqsBetween(t_stages_of(data), Cardinality(t_stages_of(data)),
                       Cardinality(t_stages_of(data))) : Distinct(o)}

-----------------------------------------------------------------------------
(* The evolution of the hidden Markov model *)

\* the matrix a read of transition_matrix returns when the cache holds tm
read_transition_matrix(tm, sp, mm) ==
    IF tm = NoMatrix THEN generate_transition(sp, mm) ELSE tm[1]

\* start_state: all healthy
start_state == [i \in StateIdx |-> IF i = 0 THEN 1 ELSE 0]

\* state @ self.transition_matrix
vec_mat(state, T) ==
    [j \in StateIdx |->
        Sum([k \in 1..num_states |-> state[k - 1] * T[k - 1][j]])]

RECURSIVE state_at(_, _)
\* start_state @ mat_pow(T, t); over Pow(TransDen, t)
state_at(T, t) == IF t = 0 THEN start_state ELSE vec_mat(state_at(T, t - 1), T)

\* what _evolve hands back: one vector (single) or a matrix of rows, row i
\* over Pow(TransDen, t_first + i - 1)
Evolved(single, rows, err) == [single |-> single, rows |-> rows, err |-> err]

\* Unilateral._evolve(t_first, t_last); t_last is <<>> for None
evolve(T, t_first, t_last) ==
    IF t_last = <<>> THEN Evolved(TRUE, <<state_at(T, t_first)>>, NoError)
    ELSE IF t_last[1] - t_first < 0 THEN Evolved(FALSE, <<>>, ValueError)
    ELSE Evolved(FALSE,
                 [i \in 1..(t_last[1] - t_first + 1) |->
                     state_at(T, t_first + i - 1)],
                 NoError)

-----------------------------------------------------------------------------
(* The likelihood *)

\* a returned number: minus infinity, or num over some denominator
NegInf == [inf |-> TRUE, num |-> 0]
Float(n) == [inf |-> FALSE, num |-> n]

\* a computed likelihood: for each T-stage it runs over, the probabilities p
\* of the stage's patients, of which it is the product, or the sum of the
\* logarithms when log is true
Llh(log, p) == [log |-> log, p |-> p]

\* what a lookup of a key that a dict does not hold raises
KeyError == "KeyError"

\* diag_time_dists.max_t: the last time step of the distributions
max_t == 2

RECURSIVE Binom(_, _)
Binom(n, k) ==
    IF k = 0 \/ k = n THEN 1 ELSE Binom(n - 1, k - 1) + Binom(n - 1, k)

\* Distribution.pmf of the binomial distribution with parameter v / Unit over
\* the time steps 0..max_t; over Pow(Unit, max_t)
pmf(v) ==
    [t \in 0..max_t |-> Binom(max_t, t) * Pow(v, t) * Pow(Unit - v, max_t - t)]

\* (pmf @ evolved @ C)[j]; over Pow(Unit, max_t) * Pow(TransDen, max_t)
\* * the denominator of C
marginal_obs_prob(v, evolved, C, j) ==
    Sum([t1 \in 1..(max_t + 1) |->
            pmf(v)[t1 - 1] * Pow(TransDen, max_t - (t1 - 1))
            * Sum([k \in 1..num_states |->
                      evolved[t1][k - 1] * C[k - 1][j]])])

\* the number of patients of a diagnose matrix
num_patients(C) == Len(C[0])

\* no T-stage at all
likelihood_stages_none(dm, dists) == {}

\* the T-stages the hidden Markov likelihood runs over
likelihood_stages(dm, dists) == DOMAIN dm[1] \cap DOMAIN dists

\* Node.bn_prob with every parent counted as involved
bn_prob_parents_involved(name, sp, st) ==
    LET res == Prod([k \in 1..Len(inc(name)) |->
                        (Unit - sp[inc(name)[k]]) * Unit])
        den == Pow(FactorDen, Len(inc(name)))
    IN  IF st[name] % 2 = 0 THEN res + st[name] * den
        ELSE st[name] * den - res

\* Node.bn_prob of the node `name', given the states st of the LNLs: res is
\* the product over the incoming edges of (1 - t) ^ (state of the parent),
\* then res * (-1) ^ state + state; over FactorDen ^ Len(inc(name)), every
\* edge counting for two units as a parent's state goes up to 2
bn_prob(name, sp, st) ==
    LET res == Prod([k \in 1..Len(inc(name)) |->
                        LET ps == NodeState(st, inc(name)[k].parent)
                        IN  Pow(Unit - sp[inc(name)[k]], ps)
                            * Pow(Unit, 2 - ps)])
        den == Pow(FactorDen, Len(inc(name)))
    IN  IF st[name] % 2 = 0 THEN res + st[name] * den
        ELSE st[name] * den - res

\* what _likelihood leaves behind: the error raised or the value, the cached
\* transition matrix and the states of the LNLs
Core(err, value, tm, st) ==
    [err |-> err, value |-> value, tm |-> tm, state |-> st]

\* _likelihood in mode HMM taking missing matrices for no T-stage at all
likelihood_hmm_without_matrices(log, dm, st, tm, sp, mm, dists) ==
    LET T == read_transition_matrix(tm, sp, mm)
        evolved == evolve(T, 0, <<max_t>>).rows
        stages == IF dm = <<>> THEN {} ELSE likelihood_stages(dm, dists)
    IN  Core(NoError,
             <<Llh(log, [stage \in stages |->
                   [j \in 1..num_patients(dm[1][stage].rows) |->
                       marginal_obs_prob(dists[stage], evolved,
                                         dm[1][stage].rows, j)]])>>,
             <<T>>, st)

\* _likelihood in mode HMM
likelihood_hmm(log, dm, st, tm, sp, mm, dists) ==
    IF dm = <<>> THEN Core(AttributeError, <<>>, tm, st)
    ELSE LET T == read_transition_matrix(tm, sp, mm)
             evolved == evolve(T, 0, <<max_t>>).rows
         IN  Core(NoError,
                  <<Llh(log, [stage \in likelihood_stages(dm, dists) |->
                        [j \in 1..num_patients(dm[1][stage].rows) |->
                            marginal_obs_prob(dists[stage], evolved,
                                              dm[1][stage].rows, j)]])>>,
                  <<T>>, st)

\* _likelihood in mode BN
likelihood_bn(log, dm, st, tm, sp, mm) ==
    LET first == assign_states_row(st, 0)
        after == assign_states_row(st, num_states - 1).state
    IN  IF first.err # NoError THEN Core(first.err, <<>>, tm, st)
        ELSE IF dm = <<>> THEN Core(AttributeError, <<>>, tm, after)
        ELSE IF "BN" \notin DOMAIN dm[1] THEN Core(KeyError, <<>>, tm, after)
        ELSE Core(NoError,
                  <<Llh(log, [stage \in {"BN"} |->
                        [j \in 1..num_patients(dm[1]["BN"].rows) |->
                            Sum([k \in 1..num_states |->
                                    Prod([n \in 1..Len(lnls) |->
                                            bn_prob(lnls[n], sp,
                                                    StateByName(k - 1))])
                                    * dm[1]["BN"].rows[k - 1][j]])]])>>,
                  tm, after)

\* Unilateral._likelihood(mode, log)
likelihood_core(mode, log, dm, st, tm, sp, mm, dists) ==
    IF mode = "HMM" THEN likelihood_hmm(log, dm, st, tm, sp, mm, dists)
    ELSE likelihood_bn(log, dm, st, tm, sp, mm)

\* the value likelihood returns when assign_params raised
invalid_params_result(log) == IF log THEN NegInf ELSE Float(0)

\* the errors likelihood catches around assign_params
caught_errors == {ValueError}

-----------------------------------------------------------------------------
(* The risk *)

\* an entry of an involvement pattern that is None
NoneVal == 0 - 1

\* involvement.get(lnl.name, None) for every LNL
involvement_array(involvement) ==
    [n \in 1..Len(lnls) |->
        IF lnls[n] \in DOMAIN involvement THEN involvement[lnls[n]]
        ELSE NoneVal]

\* marg_states[i]: state i agrees with the pattern wherever it is not None
matches(involvement, i) ==
    \A n \in 1..Len(lnls) :
        \/ involvement_array(involvement)[n] = NoneVal
        \/ involvement_array(involvement)[n] = state_list(i)[n]

\* what risk returns: the numerators num over the denominator den; one
\* number (single) or one for every state
Posterior(single, num, den) == [single |-> single, num |-> num, den |-> den]

\* the marginalisation over the involvement pattern
marginalise(involvement, joint) ==
    IF involvement = <<>>
        THEN Posterior(FALSE, [k \in 1..num_states |-> joint[k - 1]],
                       Sum([k \in 1..num_states |-> joint[k - 1]]))
        ELSE Posterior(TRUE,
                       <<Sum([k \in 1..num_states |->
                                IF matches(involvement[1], k - 1)
                                    THEN joint[k - 1] ELSE 0])>>,
                       Sum([k \in 1..num_states |-> joint[k - 1]]))

\* marg_state_probs of the hidden Markov model: pmf @ state_probs; over
\* Pow(Unit, max_t) * Pow(TransDen, max_t)
marg_state_probs_hmm(v, evolved) ==
    [i \in StateIdx |->
        Sum([t1 \in 1..(max_t + 1) |->
                pmf(v)[t1 - 1] * Pow(TransDen, max_t - (t1 - 1))
                * evolved[t1][i]])]

\* marg_state_probs of the Bayesian network; over TransDen
marg_state_probs_bn(sp) ==
    [i \in StateIdx |->
        Prod([n \in 1..Len(lnls) |-> bn_prob(lnls[n], sp, StateByName(i))])]

\* Unilateral.risk(involvement, None, given_diagnoses, t_stage, mode);
\* involvement is <<>> for None and <<dict>> otherwise
risk(involvement, diagnoses, t_stage, mode, st, tm, sp, mm, dists, mods) ==
    LET first == assign_states_row(st, 0)
        after == assign_states_row(st, num_states - 1).state
        diagnose_probs ==
            [i \in StateIdx |->
                comp_diagnose_prob(assign_states_row(st, i).state,
                                   diagnoses, mods)]
        T == read_transition_matrix(tm, sp, mm)
        marg == IF mode = "HMM"
                   THEN marg_state_probs_hmm(dists[t_stage],
                                             evolve(T, 0, <<max_t>>).rows)
                   ELSE marg_state_probs_bn(sp)
        joint == [i \in StateIdx |-> marg[i] * diagnose_probs[i]]
    IN  IF first.err # NoError THEN Core(first.err, <<>>, tm, st)
        ELSE IF mode = "HMM" /\ t_stage \notin DOMAIN dists
            THEN Core(KeyError, <<>>, <<T>>, after)
        ELSE Core(NoError, <<marginalise(involvement, joint)>>,
                  IF mode = "HMM" THEN <<T>> ELSE tm, after)

-----------------------------------------------------------------------------
(* The operations on a constructed model *)

\* the values given for a parameter: the ends of [0,1] and the nearest
\* values on either side outside of it
Vals == {-1, 0, Unit, Unit + 1}
InRange(v) == 0 <= v /\ v <= Unit

\* the keys given as keyword arguments: every parameter key of the graph, a
\* T-stage, the two aggregate keys and a key that names nothing
Keys == edge_param_names \cup {"early", "growth", "micro_mod", "foo"}

\* the values given by keyword: one on each side of the upper end of [0,1]
\* and the lower end
KwVals == {0, Unit, Unit + 1}

\* keyword arguments: a dict has every key once
KwArgs(n) == {kw \in SeqsBetween(Keys \X KwVals, 0, n) :
                Distinct([i \in 1..Len(kw) |-> kw[i][1]])}

\* the calls of assign_params: positional only, keywords only, or one of each
AssignInputs ==
    (SeqsBetween(Vals, 1, MaxArgs) \X {<<>>})
    \cup ({<<>>} \X KwArgs(MaxKw))
    \cup (SeqsBetween(Vals, 1, 1) \X (KwArgs(1) \ {<<>>}))

NoPre == Model(<<>>, <<>>, <<>>, NoMatrix)

Last(op, args, kwargs, pre, err, events, result) ==
    [op |-> op, args |-> args, kwargs |-> kwargs, pre |-> pre, err |-> err,
     events |-> events, result |-> result]

\* the model as assign_params finds it
Current == Model(spread_prob, micro_mod, diag_time_dists, transition_matrix)

\* the parameters and the states of the LNLs as a call finds them
Before == Current @@ [state |-> lnl_state]

\* the models that are constructed: <<graph, allowed_states>>
ModelKinds == {<<GraphChain, Binary>>, <<GraphSingle, Trinary>>}
\* the models whose parameters alone are followed
ParamKinds == ModelKinds \cup {<<GraphChain, Trinary>>}

\* no call in progress
Idle == Last("idle", <<>>, <<>>, NoPre, NoError, <<>>, <<>>)

\* Unilateral.__init__ and Edge.__init__: spread_prob = 0, micro_mod = 1 on
\* every edge, every LNL healthy, no distribution, nothing cached
Construct(kinds) ==
    /\ \E kind \in kinds : LET g == kind[1] IN
        /\ allowed_states = kind[2]
        /\ tumors = init_tumors(g)
        /\ lnls = init_lnls(g)
        /\ tumor_edges = init_tumor_edges(g, allowed_states)
        /\ lnl_edges = init_lnl_edges(g, allowed_states)
        /\ growth_edges = init_growth_edges(g, allowed_states)
        /\ edge_params = init_edge_params(tumor_edges, lnl_edges,
                                          growth_edges, allowed_states)
    /\ spread_prob = [e \in Range(edges) |-> 0]
    /\ micro_mod = [e \in Range(edges) |-> Unit]
    /\ diag_time_dists = [s \in {} |-> 0]
    /\ lnl_state = [n \in Range(lnls) |-> 0]
    /\ transition_matrix = NoMatrix
    /\ modalities = <<>>
    /\ obs_list = NoMatrix
    /\ observation_matrix = NoMatrix
    /\ patient_data = <<>>
    /\ diagnose_matrices = <<>>
    /\ last = Idle

Init == Construct(ModelKinds)

InitParams == Construct(ParamKinds)

\* model.assign_params(*args, **kwargs); an exception leaves what was written
AssignParams ==
    /\ last = Idle
    /\ \E in \in AssignInputs :
        LET m == assign_params(Current, in[1], in[2])
        IN  /\ spread_prob' = m.spread_prob
            /\ micro_mod' = m.micro_mod
            /\ diag_time_dists' = m.dists
            /\ transition_matrix' = m.tm
            /\ last' = Last("assign_params", in[1], in[2], Current, m.err,
                            m.events, <<>>)
    /\ UNCHANGED <<topology, diagnostics, lnl_state>>

\* model.assign_params(**model.get_params(as_dict=True)), then get_params()
RoundTrip ==
    /\ last = Idle
    /\ \E kwargs \in {get_params(Current)} :
        LET m == assign_params(Current, <<>>, kwargs)
        IN  /\ spread_prob' = m.spread_prob
            /\ micro_mod' = m.micro_mod
            /\ diag_time_dists' = m.dists
            /\ transition_matrix' = m.tm
            /\ last' = Last("round_trip", <<>>, kwargs, Current, m.err,
                            m.events, get_params(m))
    /\ UNCHANGED <<topology, diagnostics, lnl_state>>

\* edge.spread_prob = v on one edge
SetSpreadProb ==
    /\ last = Idle
    /\ \E e \in Range(edges), v \in Vals :
        LET m == set_spread_prob(Current, e, v)
        IN  /\ spread_prob' = m.spread_prob
            /\ last' = Last("set_spread_prob", <<v>>, <<>>, Current, m.err,
                            m.events, <<>>)
    /\ UNCHANGED <<topology, diagnostics,
                   micro_mod, diag_time_dists, lnl_state,
                   transition_matrix>>

\* edge.micro_mod = v on one edge
SetMicroMod ==
    /\ last = Idle
    /\ \E e \in Range(edges), v \in Vals :
        LET m == set_micro_mod(Current, e, v)
        IN  /\ micro_mod' = m.micro_mod
            /\ last' = Last("set_micro_mod", <<v>>, <<>>, Current, m.err,
                            m.events, <<>>)
    /\ UNCHANGED <<topology, diagnostics,
                   spread_prob, diag_time_dists, lnl_state,
                   transition_matrix>>

\* model.diag_time_dists["early"] = a parametric distribution
SetDist ==
    /\ last = Idle
    /\ \E v \in {0, Unit} :
        /\ diag_time_dists' = [s \in {"early"} |-> v]
        /\ last' = Last("set_dist", <<v>>, <<>>, NoPre, NoError, <<>>, <<>>)
    /\ UNCHANGED <<topology, diagnostics, spread_prob, micro_mod, lnl_state,
                   transition_matrix>>

\* model.transition_matrix: computed on the first read, then kept
ReadTransitionMatrix ==
    /\ last = Idle
    /\ \E t \in {read_transition_matrix(transition_matrix, spread_prob,
                                        micro_mod)} :
        /\ transition_matrix' = <<t>>
        /\ last' = Last("transition_matrix", <<>>, <<>>, NoPre, NoError, <<>>,
                        <<t>>)
    /\ UNCHANGED <<topology, diagnostics,
                   spread_prob, micro_mod, diag_time_dists,
                   lnl_state>>

\* model.likelihood(given_params=kwargs, log=log, mode=mode), data=None;
\* empty kwargs stand for given_params=None too, which skips assign_params
Likelihood ==
    /\ last = Idle
    /\ \E kwargs \in KwArgs(MaxGiven), log \in BOOLEAN, mode \in {"HMM", "BN"} :
        LET m == assign_params(Current, <<>>, kwargs)
            caught == m.err \in caught_errors
            reached == m.err = NoError
            core == likelihood_core(mode, log, diagnose_matrices, lnl_state,
                                    m.tm, m.spread_prob, m.micro_mod, m.dists)
            err == IF caught THEN NoError
                   ELSE IF ~reached THEN m.err
                   ELSE core.err
            result == IF caught THEN <<invalid_params_result(log)>>
                      ELSE IF ~reached THEN <<>>
                      ELSE core.value
        IN  /\ spread_prob' = m.spread_prob
            /\ micro_mod' = m.micro_mod
            /\ diag_time_dists' = m.dists
            /\ transition_matrix' = IF reached THEN core.tm ELSE m.tm
            /\ lnl_state' = IF reached THEN core.state ELSE lnl_state
            /\ last' = Last("likelihood", <<log, mode>>, kwargs, Current,
                            err, m.events, result)
    /\ UNCHANGED <<topology, diagnostics>>

\* the call returns; the caller holds no result any more
Return ==
    /\ last # Idle
    /\ last' = Idle
    /\ UNCHANGED <<topology, diagnostics,
                   spread_prob, micro_mod, diag_time_dists,
                   lnl_state, transition_matrix>>

Next ==
    \/ Return
    \/ AssignParams
    \/ RoundTrip
    \/ SetSpreadProb
    \/ SetMicroMod
    \/ SetDist
    \/ ReadTransitionMatrix
    \/ Likelihood

Spec == Init /\ [][Next]_vars

\* the parameters alone: bulk assignment and read-back on every kind of model
NextParams ==
    \/ Return
    \/ AssignParams
    \/ RoundTrip
    \/ SetDist

SpecParams == InitParams /\ [][NextParams]_vars

-----------------------------------------------------------------------------
(* The edges' factors: parameters on the whole grid, every state of the LNLs *)

\* the probabilities and modifiers of the grid
Probs == 0..Unit

\* model.edge_params[key].set(v)
SetParam ==
    /\ last = Idle
    /\ \E key \in edge_param_names, v \in Probs :
        LET m == Param_set(Current, edge_param(key), v)
        IN  /\ spread_prob' = m.spread_prob
            /\ micro_mod' = m.micro_mod
            /\ transition_matrix' = m.tm
            /\ last' = Last("set_param", <<v>>, <<>>, NoPre, m.err, m.events,
                            <<>>)
    /\ UNCHANGED <<topology, diagnostics, diag_time_dists, lnl_state>>

\* lnl.state = v on one LNL
SetState ==
    /\ last = Idle
    /\ \E n \in Range(lnls), v \in Range(allowed_states) :
        /\ lnl_state' = [lnl_state EXCEPT ![n] = v]
        /\ last' = Last("set_state", <<v>>, <<>>, NoPre, NoError, <<>>, <<>>)
    /\ UNCHANGED <<topology, diagnostics,
                   spread_prob, micro_mod, diag_time_dists,
                   transition_matrix>>

\* edge.comp_spread_prob(new_state) on one edge; args holds the edge and
\* new_state, result the factor over FactorDen
CompSpreadProb ==
    /\ last = Idle
    /\ \E e \in Range(edges), new_state \in Range(allowed_states) :
        last' = Last("comp_spread_prob", <<e, new_state>>, <<>>, NoPre,
                     NoError, <<>>,
                     <<comp_spread_prob(e, spread_prob, micro_mod, lnl_state,
                                        new_state)>>)
    /\ UNCHANGED <<topology, diagnostics,
                   spread_prob, micro_mod, diag_time_dists,
                   lnl_state, transition_matrix>>

NextEdge ==
    \/ Return
    \/ SetParam
    \/ SetState
    \/ CompSpreadProb

SpecEdge == InitParams /\ [][NextEdge]_vars

-----------------------------------------------------------------------------
(* The modalities and what is read from them *)

\* model.modalities[name] = (specificity, sensitivity); the observation list,
\* the observation matrix and the diagnose matrices are dropped
SetModality ==
    /\ last = Idle
    /\ \E k \in 1..Len(ModalityNames), spsn \in SpSn :
        /\ modalities' = set_modality(modalities, ModalityNames[k], spsn)
        /\ last' = Last("set_modality", <<k>>, <<>>, NoPre, NoError, <<>>,
                        <<>>)
    /\ obs_list' = NoMatrix
    /\ observation_matrix' = NoMatrix
    /\ diagnose_matrices' = <<>>
    /\ UNCHANGED <<topology, spread_prob, micro_mod, diag_time_dists,
                   lnl_state, transition_matrix, patient_data>>

\* del model.modalities[name]
DelModality ==
    /\ last = Idle
    /\ \E k \in 1..Len(ModalityNames) :
        /\ ModalityNames[k] \in Range(modality_names(modalities))
        /\ modalities' = del_modality(modalities, ModalityNames[k])
        /\ last' = Last("del_modality", <<k>>, <<>>, NoPre, NoError, <<>>,
                        <<>>)
    /\ obs_list' = NoMatrix
    /\ observation_matrix' = NoMatrix
    /\ diagnose_matrices' = <<>>
    /\ UNCHANGED <<topology, spread_prob, micro_mod, diag_time_dists,
                   lnl_state, transition_matrix, patient_data>>

\* model.obs_list: generated on the first read, then kept
ReadObsList ==
    /\ last = Idle
    /\ \E list \in {read_obs_list(obs_list, modalities)} :
        /\ obs_list' = <<list>>
        /\ last' = Last("obs_list", <<>>, <<>>, NoPre, NoError, <<>>, <<list>>)
    /\ UNCHANGED <<topology, spread_prob, micro_mod, diag_time_dists,
                   lnl_state, transition_matrix, modalities,
                   observation_matrix, patient_data, diagnose_matrices>>

\* model.observation_matrix: computed from obs_list on the first read, then
\* kept
ReadObservationMatrix ==
    /\ last = Idle
    /\ \E list \in {read_obs_list(obs_list, modalities)} :
        \E om \in {read_observation_matrix(observation_matrix, list,
                                           modalities)} :
            /\ obs_list' = IF observation_matrix = NoMatrix
                              THEN <<list>> ELSE obs_list
            /\ observation_matrix' = <<om>>
            /\ last' = Last("observation_matrix", <<>>, <<>>, NoPre, NoError,
                            <<>>, <<om>>)
    /\ UNCHANGED <<topology, spread_prob, micro_mod, diag_time_dists,
                   lnl_state, transition_matrix, modalities, patient_data,
                   diagnose_matrices>>

NextObs ==
    \/ Return
    \/ SetModality
    \/ DelModality
    \/ ReadObsList
    \/ ReadObservationMatrix

SpecObs == InitParams /\ [][NextObs]_vars

-----------------------------------------------------------------------------
(* Loading patient data *)

\* the modalities handed to load_data: none, or a dict with CT alone
GivenModalities == {<<>>} \cup {<<<<Modality("CT", spsn)>>>> : spsn \in SpSn}

\* the model as load_data finds it
CurrentData ==
    Data(modalities, obs_list, observation_matrix, diagnose_matrices,
         lnl_state)

\* model.load_data(data, modality_spsn, mode); args holds the mode, kwargs
\* the table and the modalities given
LoadData ==
    /\ last = Idle
    /\ \E data \in Tables, spsn \in GivenModalities, mode \in {"HMM", "BN"} :
        \E order \in StageOrders(data) :
            LET d == load_data(CurrentData, diag_time_dists, data, spsn,
                               mode, order)
            IN  /\ modalities' = d.modalities
                /\ obs_list' = d.obs_list
                /\ observation_matrix' = d.observation_matrix
                /\ diagnose_matrices' = d.diagnose_matrices
                /\ lnl_state' = d.state
                /\ last' = Last("load_data", <<mode>>, <<data, spsn>>, NoPre,
                                d.err, d.events, <<>>)
    /\ UNCHANGED <<topology, spread_prob, micro_mod, diag_time_dists,
                   transition_matrix, patient_data>>

\* model.diagnose_matrices
ReadDiagnoseMatrices ==
    /\ last = Idle
    /\ last' = Last("diagnose_matrices", <<>>, <<>>, NoPre,
                    IF diagnose_matrices = <<>> THEN AttributeError
                                                ELSE NoError,
                    <<>>, diagnose_matrices)
    /\ UNCHANGED <<topology, diagnostics, spread_prob, micro_mod,
                   diag_time_dists, lnl_state, transition_matrix>>

NextData ==
    \/ Return
    \/ SetModality
    \/ DelModality
    \/ ReadObsList
    \/ ReadObservationMatrix
    \/ LoadData
    \/ ReadDiagnoseMatrices

SpecData == Init /\ [][NextData]_vars

-----------------------------------------------------------------------------
(* The likelihood of loaded data *)

\* model.patient_data = data: the table is kept, then loaded in mode HMM
\* with the modalities the model has
SetPatientData ==
    /\ last = Idle
    /\ \E data \in Tables : \E order \in StageOrders(data) :
        LET d == load_data(CurrentData, diag_time_dists, data, <<>>, "HMM",
                           order)
        IN  /\ patient_data' = <<data>>
            /\ modalities' = d.modalities
            /\ obs_list' = d.obs_list
            /\ observation_matrix' = d.observation_matrix
            /\ diagnose_matrices' = d.diagnose_matrices
            /\ lnl_state' = d.state
            /\ last' = Last("set_patient_data", <<"HMM">>, <<data, <<>>>>,
                            NoPre, d.err, d.events, <<>>)
    /\ UNCHANGED <<topology, spread_prob, micro_mod, diag_time_dists,
                   transition_matrix>>

\* model.patient_data
ReadPatientData ==
    /\ last = Idle
    /\ last' = Last("patient_data", <<>>, <<>>, NoPre,
                    IF patient_data = <<>> THEN AttributeError ELSE NoError,
                    <<>>, patient_data)
    /\ UNCHANGED <<topology, diagnostics, spread_prob, micro_mod,
                   diag_time_dists, lnl_state, transition_matrix>>

\* model.likelihood(log=log, mode=mode): neither data nor given_params
LikelihoodStored ==
    /\ last = Idle
    /\ \E log \in BOOLEAN, mode \in {"HMM", "BN"} :
        LET core == likelihood_core(mode, log, diagnose_matrices, lnl_state,
                                    transition_matrix, spread_prob, micro_mod,
                                    diag_time_dists)
        IN  /\ transition_matrix' = core.tm
            /\ lnl_state' = core.state
            /\ last' = Last("likelihood", <<log, mode>>, <<>>, Current,
                            core.err, <<>>, core.value)
    /\ UNCHANGED <<topology, diagnostics, spread_prob, micro_mod,
                   diag_time_dists>>

NextLik ==
    \/ Return
    \/ SetParam
    \/ SetDist
    \/ LoadData
    \/ LikelihoodStored

SpecLik == Init /\ [][NextLik]_vars

NextReads ==
    \/ Return
    \/ LoadData
    \/ SetPatientData
    \/ ReadDiagnoseMatrices
    \/ ReadPatientData
    \/ LikelihoodStored

SpecReads == Init /\ [][NextReads]_vars

-----------------------------------------------------------------------------
(* The evolution over time *)

\* the last time step asked for
MaxTime == 2

\* model._evolve(t_first, t_last); kwargs is <<>> when t_last is left out
Evolve ==
    /\ last = Idle
    /\ \E t_first \in 0..MaxTime,
          t_last \in {<<>>} \cup {<<t>> : t \in 0..MaxTime} :
        LET T == read_transition_matrix(transition_matrix, spread_prob,
                                        micro_mod)
            e == evolve(T, t_first, t_last)
        IN  /\ transition_matrix' = <<T>>
            /\ last' = Last("evolve", <<t_first>>, t_last, Current, e.err,
                            <<>>, <<e>>)
    /\ UNCHANGED <<topology, diagnostics, spread_prob, micro_mod,
                   diag_time_dists, lnl_state>>

NextEvolve ==
    \/ Return
    \/ SetParam
    \/ Evolve

SpecEvolve == Init /\ [][NextEvolve]_vars

-----------------------------------------------------------------------------
(* The risk of involvement *)

\* the involvement patterns asked for: None, or a dict that names at most
\* one LNL, with a state or with None
Involvements ==
    {<<>>, <<<<>>>>}
    \cup {<<[n \in {name} |-> v]>> :
             name \in Range(lnls), v \in Range(allowed_states) \cup {NoneVal}}

\* the diagnoses given: none, or CT positive in every LNL
GivenDiagnoses ==
    {<<>>, [m \in {"CT"} |-> [n \in Range(lnls) |-> 1]]}

\* model.risk(involvement, given_diagnoses=..., t_stage=..., mode=...)
Risk ==
    /\ last = Idle
    /\ \E involvement \in Involvements, given \in GivenDiagnoses,
          t_stage \in {"early", "late"}, mode \in {"HMM", "BN"} :
        LET r == risk(involvement, given, t_stage, mode, lnl_state,
                      transition_matrix, spread_prob, micro_mod,
                      diag_time_dists, modalities)
        IN  /\ transition_matrix' = r.tm
            /\ lnl_state' = r.state
            /\ last' = Last("risk", <<involvement, given, t_stage, mode>>,
                            <<>>, Before, r.err, <<>>, r.value)
    /\ UNCHANGED <<topology, diagnostics, spread_prob, micro_mod,
                   diag_time_dists>>

NextRisk ==
    \/ Return
    \/ SetParam
    \/ SetDist
    \/ SetModality
    \/ Risk

SpecRisk == Init /\ [][NextRisk]_vars

-----------------------------------------------------------------------------
(* The construction from a graph mapping *)

TypeError == "TypeError"

\* what find_node returns for a name of no node
None == "None"

\* the keys a graph mapping is made of, in the order of the mapping; the
\* last one gives the name of the tumor to an LNL
NodeKeys ==
    << <<"tumor", "T">>, <<"lnl", "II">>, <<"lnl", "III">>, <<"lnl", "T">> >>

\* the names a key may list as children; IV is the name of no key
EndNames == <<"T", "II", "III", "IV">>

\* the graph mapping with the keys K of NodeKeys and the children f[k]
graph_of(K, f) ==
    LET keys == SelectSeq([k \in 1..Len(NodeKeys) |-> k], LAMBDA k : k \in K)
    IN  [i \in 1..Len(keys) |->
            [type |-> NodeKeys[keys[i]][1], name |-> NodeKeys[keys[i]][2],
             ends |-> SelectSeq(EndNames, LAMBDA n : n \in f[keys[i]])]]

\* the graph mappings a model is constructed from: sound ones and unsound
\* ones, no key listing itself as a child
Graphs ==
    UNION {{graph_of(K, f) :
               f \in {h \in [K -> SUBSET Range(EndNames)] :
                         \A k \in K : NodeKeys[k][2] \notin h[k]}} :
           K \in (SUBSET (1..Len(NodeKeys))) \ {{}}}

\* helper.check_unique_names: two keys with one name are an error
check_unique_names(g) ==
    IF Distinct([i \in 1..Len(g) |-> g[i].name]) THEN NoError ELSE ValueError

\* Unilateral.find_node: the kind of the first node with the name, tumors
\* before LNLs
find_node(g, name) ==
    IF name \in Range(init_tumors(g)) THEN "tumor"
    ELSE IF name \in Range(init_lnls(g)) THEN "lnl"
    ELSE None

\* Edge.start: the setter takes a tumor or an LNL
set_start(node) == IF node \in {"tumor", "lnl"} THEN NoError ELSE TypeError

\* Edge.end with a setter that takes any node
set_end_any_node(node) ==
    IF node \in {"tumor", "lnl"} THEN NoError ELSE TypeError

\* Edge.end: the setter takes an LNL only
set_end(node) == IF node = "lnl" THEN NoError ELSE TypeError

\* Edge.__init__: start is set before end
new_edge(g, e) ==
    IF set_start(find_node(g, e.parent)) # NoError
        THEN set_start(find_node(g, e.parent))
        ELSE set_end(find_node(g, e.child))

\* init_edges: the first edge that cannot be created ends the construction
init_edges(g, states) ==
    LET errs == SelectSeq([i \in 1..Len(created_edges(g, states)) |->
                              new_edge(g, created_edges(g, states)[i])],
                          LAMBDA err : err # NoError)
    IN  IF errs = <<>> THEN NoError ELSE Head(errs)

\* Unilateral.__init__: the error it raises, if any
init(g, states) ==
    IF check_unique_names(g) # NoError THEN check_unique_names(g)
    ELSE init_edges(g, states)

\* no model is constructed
Unconstructed ==
    /\ topology = <<<<>>, <<>>, <<>>, <<>>, <<>>, <<>>, <<>>>>
    /\ spread_prob = <<>>
    /\ micro_mod = <<>>
    /\ lnl_state = <<>>

InitNone ==
    /\ allowed_states = <<>>
    /\ tumors = <<>>
    /\ lnls = <<>>
    /\ tumor_edges = <<>>
    /\ lnl_edges = <<>>
    /\ growth_edges = <<>>
    /\ edge_params = <<>>
    /\ spread_prob = <<>>
    /\ micro_mod = <<>>
    /\ lnl_state = <<>>
    /\ diag_time_dists = <<>>
    /\ transition_matrix = NoMatrix
    /\ modalities = <<>>
    /\ obs_list = NoMatrix
    /\ observation_matrix = NoMatrix
    /\ patient_data = <<>>
    /\ diagnose_matrices = <<>>
    /\ last = Idle

\* Unilateral(graph, allowed_states=states): an exception leaves no model
New ==
    /\ last = Idle
    /\ Unconstructed
    /\ \E g \in Graphs, states \in {Binary, Trinary} :
        /\ last' = Last("init", <<g, states>>, <<>>, NoPre, init(g, states),
                        <<>>, <<>>)
        /\ IF init(g, states) # NoError
              THEN UNCHANGED <<topology, spread_prob, micro_mod, lnl_state>>
              ELSE /\ allowed_states' = states
                   /\ tumors' = init_tumors(g)
                   /\ lnls' = init_lnls(g)
                   /\ tumor_edges' = init_tumor_edges(g, states)
                   /\ lnl_edges' = init_lnl_edges(g, states)
                   /\ growth_edges' = init_growth_edges(g, states)
                   /\ edge_params'
                          = init_edge_params(init_tumor_edges(g, states),
                                             init_lnl_edges(g, states),
                                             init_growth_edges(g, states),
                                             states)
                   /\ spread_prob'
                          = [e \in Range(created_edges(g, states)) |-> 0]
                   /\ micro_mod'
                          = [e \in Range(created_edges(g, states)) |-> Unit]
                   /\ lnl_state' = [n \in Range(init_lnls(g)) |-> 0]
    /\ UNCHANGED <<diag_time_dists, transition_matrix, diagnostics>>

NextConstruct ==
    \/ Return
    \/ New

SpecConstruct == InitNone /\ [][NextConstruct]_vars

-----------------------------------------------------------------------------
(* The nodes of the Bayesian network *)

\* the binary models whose nodes are followed
NodeKinds == {<<GraphChain, Binary>>, <<GraphTriangle, Binary>>}

InitNode == Construct(NodeKinds)

\* lnl.bn_prob() on one LNL, which kwargs names; result holds the
\* probability over FactorDen ^ Len(inc(name))
BnProb ==
    /\ last = Idle
    /\ \E name \in Range(lnls) :
        last' = Last("bn_prob", <<>>, <<name>>, NoPre, NoError, <<>>,
                     <<bn_prob(name, spread_prob, lnl_state)>>)
    /\ UNCHANGED <<topology, diagnostics, spread_prob, micro_mod,
                   diag_time_dists, lnl_state, transition_matrix>>

NextNode ==
    \/ Return
    \/ SetParam
    \/ SetState
    \/ BnProb

SpecNode == InitNode /\ [][NextNode]_vars

-----------------------------------------------------------------------------
(* The operations on the states of the LNLs *)

\* the states that are passed to assign_states: the allowed ones and one
\* that is not allowed
PassedStates == 0..Len(allowed_states)

\* the keywords that are passed: the LNLs, the tumors and an unknown name
PassedKeys == Range(lnls) \cup Range(tumors) \cup {"IV"}

\* model.assign_states(*args, **kwargs); result holds the states of the
\* tumors after the call
AssignStates ==
    /\ last = Idle
    /\ \E args \in SeqsBetween(PassedStates, 0, Len(lnls)),
          kwargs \in {<<>>} \cup {<<<<key, v>>>> : key \in PassedKeys,
                                                  v \in PassedStates} :
        LET s == assign_states(States(lnl_state),
                               [k \in 1..Len(args) |-> <<args[k]>>], kwargs)
        IN  /\ lnl_state' = s.state
            /\ last' = Last("assign_states", args, kwargs, Before, s.err,
                            <<>>, <<s.tumors>>)
    /\ UNCHANGED <<topology, diagnostics, spread_prob, micro_mod,
                   diag_time_dists, transition_matrix>>

\* model.get_states()
GetStates ==
    /\ last = Idle
    /\ last' = Last("get_states", <<>>, <<>>, Before, NoError, <<>>,
                    <<get_states(lnl_state)>>)
    /\ UNCHANGED <<topology, diagnostics, spread_prob, micro_mod,
                   diag_time_dists, lnl_state, transition_matrix>>

\* Unilateral.comp_transition_prob(newstate, assign) as a whole: with assign,
\* newstate is passed to assign_states as one positional argument after the
\* probability is computed; value holds the probability over TransDen
transition_prob_call(sp, mm, st, newstate, assign) ==
    LET assigned == assign_states(States(st), <<newstate>>, <<>>)
    IN  IF assign /\ assigned.err # NoError
            THEN [err |-> assigned.err, value |-> <<>>,
                  state |-> assigned.state]
        ELSE [err |-> NoError,
              value |-> <<comp_transition_prob(sp, mm, st, newstate)>>,
              state |-> IF assign THEN assigned.state ELSE st]

\* model.comp_transition_prob(newstate, assign=assign)
CompTransitionProb ==
    /\ last = Idle
    /\ \E newstate \in SeqsBetween(Range(allowed_states), Len(lnls),
                                    Len(lnls)),
          assign \in BOOLEAN :
        /\ lnl_state' = transition_prob_call(spread_prob, micro_mod,
                                             lnl_state, newstate,
                                             assign).state
        /\ last' = Last("comp_transition_prob", newstate,
                        <<<<"assign", assign>>>>, Before,
                        transition_prob_call(spread_prob, micro_mod,
                                             lnl_state, newstate, assign).err,
                        <<>>,
                        transition_prob_call(spread_prob, micro_mod,
                                             lnl_state, newstate,
                                             assign).value)
    /\ UNCHANGED <<topology, diagnostics, spread_prob, micro_mod,
                   diag_time_dists, transition_matrix>>

NextStates ==
    \/ Return
    \/ SetParam
    \/ AssignStates
    \/ GetStates
    \/ CompTransitionProb

SpecStates == Init /\ [][NextStates]_vars

-----------------------------------------------------------------------------
(* The writes to the parameters of the edges *)

NextSetters ==
    \/ Return
    \/ SetSpreadProb
    \/ SetMicroMod
    \/ AssignParams

SpecSetters == Init /\ [][NextSetters]_vars

-----------------------------------------------------------------------------
(* The calls that read the model *)

NextCalls ==
    \/ Return
    \/ SetDist
    \/ LoadData
    \/ LikelihoodStored
    \/ Risk

SpecCalls == Init /\ [][NextCalls]_vars

-----------------------------------------------------------------------------
(* Properties of assign_params *)

\* the value a parameter key reads back: Param.get or Distribution.get_param
value_of(key) ==
    IF key \in DOMAIN diag_time_dists THEN diag_time_dists[key]
    ELSE Param_get(Current, edge_param(key))

\* the keys get_params returns
param_keys == edge_param_names \cup DOMAIN diag_time_dists

\* the keys whose value is a probability or modifier of edges
edge_value_keys == edge_param_names \cup {"growth", "micro_mod"}

\* the parameters are what they were before the call
ParamsAsBefore ==
    /\ spread_prob = last.pre.spread_prob
    /\ micro_mod = last.pre.micro_mod
    /\ diag_time_dists = last.pre.dists

\* C1: a call of assign_params that fails leaves every spread_prob, every
\* micro_mod and every distribution parameter as it was before the call, also
\* those of the keys processed before the failing one.
C1_FailedAssignChangesNothing ==
    (last.op = "assign_params" /\ last.err # NoError) => ParamsAsBefore

\* C2: a read of transition_matrix returns the matrix of the current edge
\* parameters, never one cached before a mutation.
C2_ReadSeesCurrentParams ==
    last.op = "transition_matrix"
        => last.result = <<generate_transition(spread_prob, micro_mod)>>

C4_InvalidParamsGiveMinusInfinity ==
    (/\ last.op = "likelihood"
     /\ \E i \in 1..Len(last.kwargs) :
           /\ last.kwargs[i][1] \in edge_value_keys
           /\ ~InRange(last.kwargs[i][2]))
    => /\ last.err = NoError
       /\ last.result = <<IF last.args[1] THEN NegInf ELSE Float(0)>>

\* the positional values that reach an edge parameter
PositionalEdgeValues ==
    {last.args[i] : i \in 1..Min(Len(last.args), Len(edge_params))}

\* C5: assign_params reports an error whenever a keyword key names nothing
\* and whenever a value given for a spread probability, a growth probability
\* or a micro modifier (also through the aggregate keys) is outside [0,1].
C5_BadInputIsReported ==
    (/\ last.op = "assign_params"
     /\ \/ \E i \in 1..Len(last.kwargs) :
              \/ last.kwargs[i][1] \notin
                    edge_value_keys \cup DOMAIN last.pre.dists
              \/ /\ last.kwargs[i][1] \in edge_value_keys
                 /\ ~InRange(last.kwargs[i][2])
        \/ \E v \in PositionalEdgeValues : ~InRange(v))
    => last.err # NoError

\* C6: after assign_params(**p) with in-range values for parameter keys every
\* key reads back its value, and assign_params(**get_params()) followed by
\* get_params() returns what get_params() returned before.
C6_ParameterRoundTrip ==
    /\ (/\ last.op = "assign_params"
        /\ last.args = <<>>
        /\ \A i \in 1..Len(last.kwargs) :
              /\ last.kwargs[i][1] \in param_keys
              /\ InRange(last.kwargs[i][2]))
       => /\ last.err = NoError
          /\ \A i \in 1..Len(last.kwargs) :
                value_of(last.kwargs[i][1]) = last.kwargs[i][2]
    /\ last.op = "round_trip"
       => /\ last.err = NoError
          /\ last.result = last.kwargs
          /\ ParamsAsBefore

\* a round trip over at least three parameters, one of them changed before
C6_Witness ==
    /\ last.op = "round_trip"
    /\ Len(last.kwargs) >= 3
    /\ \E i \in 1..Len(last.result) : last.result[i][2] = Unit
    /\ \E i \in 1..Len(last.result) : last.result[i][2] = 0

\* C7: assign_params(micro_mod=v) sets micro_mod on every LNL-to-LNL edge and
\* on no other edge, assign_params(growth=v) sets spread_prob on every growth
\* edge and on no other edge, and all other parameters stay as they were.
C7_AggregateKeys ==
    (/\ last.op = "assign_params"
     /\ last.args = <<>>
     /\ Len(last.kwargs) = 1
     /\ InRange(last.kwargs[1][2]))
    => LET v == last.kwargs[1][2]
       IN  /\ last.kwargs[1][1] = "micro_mod"
              => /\ last.err = NoError
                 /\ \A e \in Range(edges) :
                       micro_mod[e] = IF e \in Range(lnl_edges)
                                         THEN v ELSE last.pre.micro_mod[e]
                 /\ spread_prob = last.pre.spread_prob
                 /\ diag_time_dists = last.pre.dists
           /\ last.kwargs[1][1] = "growth"
              => /\ last.err = NoError
                 /\ \A e \in Range(edges) :
                       spread_prob[e] = IF e \in Range(growth_edges)
                                           THEN v ELSE last.pre.spread_prob[e]
                 /\ micro_mod = last.pre.micro_mod
                 /\ diag_time_dists = last.pre.dists

\* micro_mod = 0 given to a model with tumor, LNL-to-LNL and growth edges
C7_Witness ==
    /\ last.op = "assign_params"
    /\ last.kwargs = << <<"micro_mod", 0>> >>
    /\ \E e \in Range(lnl_edges) :
          last.pre.micro_mod[e] = Unit /\ micro_mod[e] = 0
    /\ \E e \in Range(tumor_edges) : micro_mod[e] = Unit
    /\ \E e \in Range(growth_edges) : micro_mod[e] = Unit

-----------------------------------------------------------------------------
(* Properties of the transition matrix *)

\* C8: every row of the transition matrix sums to 1 and the matrix has one
\* row and one column per hidden state.
C8_RowsSumToOne ==
    last.op = "transition_matrix"
        => LET T == last.result[1]
           IN  /\ DOMAIN T = StateIdx
               /\ \A i \in StateIdx :
                     /\ DOMAIN T[i] = StateIdx
                     /\ Sum([j \in 1..num_states |-> T[i][j - 1]]) = TransDen

\* C9: a non-zero transition probability T[i][j] implies that state j is
\* componentwise greater than or equal to state i.
C9_NoRegression ==
    last.op = "transition_matrix"
        => LET T == last.result[1]
           IN  \A i, j \in StateIdx :
                  T[i][j] > 0
                      => \A k \in 1..Len(lnls) :
                            state_list(j)[k] >= state_list(i)[k]

\* C10: the factor of an LNL-to-LNL edge with a binary child in state 0 is
\* spread_prob for 0->1 and 1 - spread_prob for 0->0 when the parent is in
\* state 1, and 0 for 0->1 and 1 for 0->0 when the parent is in state 0.
C10_HealthyParentDoesNotSpread ==
    is_binary
        => \A e \in Range(lnl_edges) : \A i \in StateIdx :
              LET st == StateByName(i)
                  f(new) == comp_spread_prob(e, spread_prob, micro_mod, st, new)
              IN  st[e.child] = 0
                    => /\ st[e.parent] = 1
                          => /\ f(1) = spread_prob[e] * Unit
                             /\ f(0) = (Unit - spread_prob[e]) * Unit
                       /\ st[e.parent] = 0
                          => /\ f(1) = 0
                             /\ f(0) = FactorDen

-----------------------------------------------------------------------------
(* Properties of the edges' factors *)

\* the edge and the new state of the comp_spread_prob call just made
called_edge == last.args[1]
called_new_state == last.args[2]
parent_state == NodeState(lnl_state, called_edge.parent)
child_state == NodeState(lnl_state, called_edge.child)

C13_EdgeFactorsSumToOne ==
    \A e \in Range(edges) :
        Sum([k \in 1..Len(allowed_states) |->
                comp_spread_prob(e, spread_prob, micro_mod, lnl_state,
                                 allowed_states[k])]) = FactorDen

-----------------------------------------------------------------------------
(* Properties of the observation matrix *)

\* C14: the observation matrix has one row per hidden state and one column
\* per observation, 2^(N*M) of them for N LNLs and M modalities, and every
\* row sums to 1.
C14_ObservationRowsSumToOne ==
    last.op = "observation_matrix"
        => LET O == last.result[1]
           IN  /\ DOMAIN O = StateIdx
               /\ \A i \in StateIdx :
                     /\ Len(O[i]) = Pow(2, Len(lnls) * Len(modalities))
                     /\ Sum(O[i]) = ObsDen(modalities)

\* the observation matrix of a trinary model with two LNLs and two modalities
\* that differ: 9 rows, 16 columns
C14_Witness ==
    /\ last.op = "observation_matrix"
    /\ is_trinary
    /\ Len(lnls) = 2
    /\ Len(modalities) = 2
    /\ modalities[1].spec # modalities[2].spec
    /\ Len(last.result[1][0]) = 16

-----------------------------------------------------------------------------
(* Properties of the patient data and the diagnose matrices *)

loaded_stages(data, mode) ==
    IF mode = "HMM" THEN t_stages_of(data) ELSE {"BN"}

\* the patients of the table that belong to a matrix
loaded_rows(data, mode, stage) ==
    IF mode = "HMM" THEN rows_of(data, stage) ELSE data

\* the product, over the entries of a patient's row that are not missing, of
\* the confusion matrix entry given the LNL's state in state i; over
\* ObsDen(mods), a missing entry counting as 1
product_of_confusions(i, diag, mods) ==
    Prod([c \in 1..obs_len(mods) |->
            LET k == ((c - 1) \div Len(lnls)) + 1
                n == ((c - 1) % Len(lnls)) + 1
                obs == diag[mods[k].name][lnls[n]]
            IN  IF obs = Missing THEN Unit
                ELSE confusion_matrix(mods[k], obs, state_list(i)[n])])

\* C16: after a table is loaded into a model that has modalities, the matrix
\* of each T-stage has one row per state and one column per patient of the
\* stage, entry [i, j] is the product of the confusion matrix entries of
\* patient j's entries that are not missing, given state i, and no entry is
\* above 1
C16_DiagnoseMatrixIsProductOfConfusions ==
    last.op = "load_data" /\ modalities # <<>>
        => /\ last.err = NoError
           /\ diagnose_matrices # <<>>
                  \/ loaded_stages(last.kwargs[1], last.args[1]) = {}
           /\ \A stage \in loaded_stages(last.kwargs[1], last.args[1]) :
                 /\ stage \in DOMAIN diagnose_matrices[1]
                 /\ LET C == diagnose_matrices[1][stage].rows
                        rows == loaded_rows(last.kwargs[1], last.args[1],
                                            stage)
                    IN  /\ DOMAIN C = StateIdx
                        /\ \A i \in StateIdx :
                              /\ Len(C[i]) = Len(rows)
                              /\ \A j \in 1..Len(rows) :
                                    /\ C[i][j] = product_of_confusions(
                                                     i, rows[j].diag,
                                                     modalities)
                                    /\ C[i][j] <= ObsDen(modalities)

\* the T-stages matrices are stored for
stored_stages(dm) == IF dm = <<>> THEN {} ELSE DOMAIN dm[1]

\* the matrix of a stage that the table and the modalities determine
matrix_of(rows, mods) ==
    DiagnoseMatrix(mods, [i \in StateIdx |-> [j \in 1..Len(rows) |->
                              product_of_confusions(i, rows[j].diag, mods)]])

\* C17: whatever was loaded before, after a load the stored matrices are
\* exactly those of the table just loaded: one for each of its T-stages in
\* mode HMM, the one named BN in mode BN, each determined by the table alone,
\* so that nothing of an earlier table is left and loading a table again
\* changes nothing
C17_OnlyTheLastLoadIsStored ==
    last.op = "load_data" /\ modalities # <<>>
        => /\ stored_stages(diagnose_matrices)
                  = loaded_stages(last.kwargs[1], last.args[1])
           /\ \A stage \in stored_stages(diagnose_matrices) :
                 diagnose_matrices[1][stage]
                     = matrix_of(loaded_rows(last.kwargs[1], last.args[1],
                                             stage), modalities)

-----------------------------------------------------------------------------
(* Properties of the likelihood and of the evolution *)

\* the probability of patient j of a T-stage that has matrix C and a
\* distribution with parameter v, marginalised over the time steps with the
\* transition matrix T; over the denominator of marginal_obs_prob
patient_prob(v, T, C, j) ==
    Sum([t1 \in 1..(max_t + 1) |->
            pmf(v)[t1 - 1] * Pow(TransDen, max_t - (t1 - 1))
            * Sum([k \in 1..num_states |->
                      state_at(T, t1 - 1)[k - 1] * C[k - 1][j]])])

\* the T-stages that have both a stored matrix and a distribution
stages_in_both ==
    stored_stages(diagnose_matrices) \cap DOMAIN diag_time_dists

\* C19: the likelihood of the hidden Markov model is made of the patients of
\* the T-stages that have both a matrix from the loaded table and a
\* distribution, and of nothing else: a stage of the table without
\* distribution adds nothing (a load that succeeds warns about exactly these
\* stages), and neither does a distribution without patients
C19_LikelihoodOverStagesInBoth ==
    /\ last.op = "likelihood" /\ last.args[2] = "HMM" /\ last.err = NoError
        => last.result
               = <<Llh(last.args[1],
                       [stage \in stages_in_both |->
                           [j \in 1..num_patients(
                                      diagnose_matrices[1][stage].rows) |->
                               patient_prob(diag_time_dists[stage],
                                            transition_matrix[1],
                                            diagnose_matrices[1][stage].rows,
                                            j)]])>>
    /\ last.op = "load_data" /\ last.args[1] = "HMM" /\ last.err = NoError
        => Range(last.events)
               = {"warn_" \o stage :
                     stage \in t_stages_of(last.kwargs[1])
                                   \ DOMAIN diag_time_dists}

\* a table with early and late patients is loaded, only early has a
\* distribution, the tumor spreads, and the likelihood is that of the early
\* patients
C19_Witness ==
    /\ last.op = "likelihood"
    /\ last.args[2] = "HMM"
    /\ last.err = NoError
    /\ stored_stages(diagnose_matrices) = {"early", "late"}
    /\ DOMAIN diag_time_dists = {"early"}
    /\ DOMAIN last.result[1].p = {"early"}
    /\ \E e \in Range(edges) : spread_prob[e] > 0

\* the matrix product A @ B
mat_mul(A, B) ==
    [i \in StateIdx |-> [j \in StateIdx |->
        Sum([k \in 1..num_states |-> A[i][k - 1] * B[k - 1][j]])]]

RECURSIVE mat_pow(_, _)
\* mat_pow(T, n); over Pow(TransDen, n)
mat_pow(T, n) ==
    IF n = 0 THEN [i \in StateIdx |-> [j \in StateIdx |->
                      IF i = j THEN 1 ELSE 0]]
    ELSE mat_mul(mat_pow(T, n - 1), T)

\* pi0 * T^t for pi0 = (1, 0, ..., 0): the first row of T^t
evolved_row(T, t) == mat_pow(T, t)[0]

\* C20: _evolve(t_first, t_last) with t_last >= t_first returns a matrix of
\* t_last - t_first + 1 rows, row i (from 0) being pi0 * T^(t_first + i);
\* with t_last left out it returns the one vector pi0 * T^t_first; and every
\* row returned sums to 1
C20_EvolveRowsAreDistributions ==
    last.op = "evolve" /\ (last.kwargs = <<>> \/ last.kwargs[1] >= last.args[1])
        => LET e == last.result[1]
               T == transition_matrix[1]
               t_first == last.args[1]
               n == IF last.kwargs = <<>> THEN 1
                    ELSE last.kwargs[1] - t_first + 1
           IN  /\ e.err = NoError
               /\ e.single = (last.kwargs = <<>>)
               /\ Len(e.rows) = n
               /\ \A i \in 1..n :
                     /\ e.rows[i] = evolved_row(T, t_first + i - 1)
                     /\ Sum([k \in 1..num_states |-> e.rows[i][k - 1]])
                            = Pow(TransDen, t_first + i - 1)

-----------------------------------------------------------------------------
(* Properties of the risk *)

\* the denominator of marg_state_probs_hmm
MargDen == Pow(Unit, max_t) * Pow(TransDen, max_t)

\* pi_marg[i] = sum over t of pmf[t] * (pi0 * T^t)[i]; over MargDen
pi_marg(v, T, i) ==
    Sum([t1 \in 1..(max_t + 1) |->
            pmf(v)[t1 - 1] * Pow(TransDen, max_t - (t1 - 1))
            * evolved_row(T, t1 - 1)[i]])

\* C21: risk of the hidden Markov model called without involvement and
\* without diagnoses, for a T-stage that has a distribution, returns one
\* number per hidden state, the vector equals the prior pi_marg = pmf * Pi
\* marginalised over time, and it sums to 1
C21_RiskWithoutDiagnosisIsThePrior ==
    (/\ last.op = "risk"
     /\ last.args[1] = <<>>
     /\ last.args[2] = <<>>
     /\ last.args[4] = "HMM"
     /\ last.args[3] \in DOMAIN diag_time_dists)
    => /\ last.err = NoError
       /\ LET r == last.result[1]
              v == diag_time_dists[last.args[3]]
              T == transition_matrix[1]
          IN  /\ ~r.single
              /\ Len(r.num) = num_states
              /\ r.den > 0
              /\ Sum(r.num) = r.den
              /\ \A k \in 1..num_states :
                    r.num[k] * MargDen = pi_marg(v, T, k - 1) * r.den

\* P(given_diagnoses | state i): the product over the modalities the model
\* has and the diagnosis names, and over the LNLs; over ObsDen(mods)
diagnosis_prob(i, diag, mods) ==
    Prod([c \in 1..obs_len(mods) |->
            LET k == ((c - 1) \div Len(lnls)) + 1
                n == ((c - 1) % Len(lnls)) + 1
            IN  IF mods[k].name \notin DOMAIN diag THEN Unit
                ELSE confusion_matrix(mods[k], diag[mods[k].name][lnls[n]],
                                      state_list(i)[n])])

\* the prior of state i in the mode of the call, up to its denominator
prior(mode, t_stage, i) ==
    IF mode = "HMM"
        THEN pi_marg(diag_time_dists[t_stage], transition_matrix[1], i)
        ELSE Prod([n \in 1..Len(lnls) |->
                      bn_prob(lnls[n], spread_prob, StateByName(i))])

\* the states that agree with the pattern on every LNL it names with a state
agreeing(pattern) ==
    {i \in StateIdx :
        \A n \in 1..Len(lnls) :
            lnls[n] \in DOMAIN pattern /\ pattern[lnls[n]] # NoneVal
                => state_list(i)[n] = pattern[lnls[n]]}

\* C22: risk called with an involvement pattern returns one number, the sum
\* of the posterior P(state | given_diagnoses) over exactly the states that
\* agree with the pattern on every LNL that it names with a state; a pattern
\* that names no state gives 1
C22_RiskSumsThePosteriorOverThePattern ==
    (/\ last.op = "risk"
     /\ last.args[1] # <<>>
     /\ last.args[4] = "HMM" => last.args[3] \in DOMAIN diag_time_dists)
    => /\ last.err = NoError
       /\ LET r == last.result[1]
              pattern == last.args[1][1]
              joint == [i \in StateIdx |->
                           prior(last.args[4], last.args[3], i)
                           * diagnosis_prob(i, last.args[2], modalities)]
          IN  /\ r.single
              /\ r.den = Sum([k \in 1..num_states |-> joint[k - 1]])
              /\ r.num = <<Sum([k \in 1..num_states |->
                                  IF k - 1 \in agreeing(pattern)
                                      THEN joint[k - 1] ELSE 0])>>
              /\ agreeing(pattern) = StateIdx => r.num[1] = r.den

-----------------------------------------------------------------------------
(* Properties of the sign of the likelihood *)

RECURSIVE gcd(_, _)
gcd(a, b) == IF b = 0 THEN a ELSE gcd(b, a % b)

RECURSIVE product_of_fractions(_)
\* the product of a sequence of fractions <<numerator, denominator>>, reduced
product_of_fractions(fs) ==
    IF fs = <<>> THEN <<1, 1>>
    ELSE LET rest == product_of_fractions(Tail(fs))
             n == Head(fs)[1] * rest[1]
             d == Head(fs)[2] * rest[2]
         IN  IF n = 0 THEN <<0, 1>> ELSE <<n \div gcd(n, d), d \div gcd(n, d)>>

\* the probabilities of the patients a computed likelihood is the product
\* of, each over the denominator of its T-stage's diagnose matrix
patient_fractions(value, dm) ==
    Flatten([k \in 1..2 |->
                LET stage == <<"early", "late">>[k]
                IN  IF stage \notin DOMAIN value.p THEN <<>>
                    ELSE
                    [j \in 1..Len(value.p[stage]) |->
                        LET n == value.p[stage][j]
                            d == MargDen * ObsDen(dm[1][stage].modalities)
                        IN  <<n \div gcd(n, d), d \div gcd(n, d)>>]])

\* C23: once a table with at least one patient in a T-stage that has a
\* distribution is loaded, the likelihood of the hidden Markov model is the
\* product of the probabilities (pmf @ evolved @ C)[j] of these patients,
\* and it is strictly below 1 (its logarithm strictly below 0)
C23_LikelihoodBelowOne ==
    /\ last.op = "likelihood"
    /\ last.args[2] = "HMM"
    /\ last.err = NoError
    /\ patient_fractions(last.result[1], diagnose_matrices) # <<>>
    => /\ \A stage \in stages_in_both :
            \A j \in 1..num_patients(diagnose_matrices[1][stage].rows) :
                last.result[1].p[stage][j]
                    = patient_prob(diag_time_dists[stage],
                                   transition_matrix[1],
                                   diagnose_matrices[1][stage].rows, j)
       /\ LET f == product_of_fractions(
                       patient_fractions(last.result[1], diagnose_matrices))
          IN  f[1] < f[2]

-----------------------------------------------------------------------------
(* Properties of the construction *)

\* the entries of a graph mapping whose key has the type
entries_of(g, type) == SelectSeq(g, LAMBDA entry : entry.type = type)

\* how often the edge from parent to child is in a list of edges
count(list, parent, child) ==
    Cardinality({i \in 1..Len(list) : list[i] = Edge(parent, child)})

\* a list of edges holds one edge per child of every entry and nothing else
one_edge_per_child(list, entries) ==
    /\ \A i \in 1..Len(entries) : \A c \in Range(entries[i].ends) :
            count(list, entries[i].name, c) = 1
    /\ Len(list) = Sum([i \in 1..Len(entries) |-> Len(entries[i].ends)])

\* C24: after the construction from a graph mapping, the model has one node
\* per key, one tumor edge per child listed under a tumor key and one LNL
\* edge per child listed under an LNL key; a binary model has no growth
\* edge, a trinary model exactly one growth edge from every LNL to itself
C24_ConstructedGraph ==
    last.op = "init" /\ last.err = NoError
    => LET g == last.args[1] IN
        /\ tumors = [i \in 1..Len(entries_of(g, "tumor")) |->
                        entries_of(g, "tumor")[i].name]
        /\ lnls = [i \in 1..Len(entries_of(g, "lnl")) |->
                      entries_of(g, "lnl")[i].name]
        /\ Len(tumors) + Len(lnls) = Len(g)
        /\ one_edge_per_child(tumor_edges, entries_of(g, "tumor"))
        /\ one_edge_per_child(lnl_edges, entries_of(g, "lnl"))
        /\ last.args[2] = Binary => growth_edges = <<>>
        /\ last.args[2] = Trinary
            => /\ Len(growth_edges) = Len(lnls)
               /\ \A n \in Range(lnls) : count(growth_edges, n, n) = 1

\* a trinary model is constructed from T -> II, T -> III, II -> III
C24_Witness ==
    /\ last.op = "init"
    /\ last.err = NoError
    /\ allowed_states = Trinary
    /\ tumor_edges = <<Edge("T", "II"), Edge("T", "III")>>
    /\ lnl_edges = <<Edge("II", "III")>>
    /\ growth_edges = <<Edge("II", "II"), Edge("III", "III")>>

\* the names of the keys of a graph mapping
names_of(g) == {g[i].name : i \in 1..Len(g)}

\* a child that is the name of no key
dangling(g) == \E i \in 1..Len(g) : Range(g[i].ends) \ names_of(g) # {}

\* a tumor listed as a child
tumor_as_child(g) ==
    \E i \in 1..Len(g) :
        Range(g[i].ends) \cap names_of(entries_of(g, "tumor")) # {}

\* one name for two keys
name_twice(g) == Cardinality(names_of(g)) < Len(g)

\* C25: the construction from a graph mapping with a child that is the name
\* of no key, with a tumor listed as a child, or with one name for two keys
\* ends with an error, and no model exists afterwards
C25_InvalidGraphIsRefused ==
    /\ last.op = "init"
    /\ \/ dangling(last.args[1])
       \/ tumor_as_child(last.args[1])
       \/ name_twice(last.args[1])
    => /\ last.err \in {TypeError, ValueError}
       /\ Unconstructed

\* T -> II with II listing the tumor as its child is refused
C25_Witness ==
    /\ last.op = "init"
    /\ tumor_as_child(last.args[1])
    /\ ~dangling(last.args[1])
    /\ ~name_twice(last.args[1])
    /\ last.err = TypeError
    /\ Unconstructed

-----------------------------------------------------------------------------
(* Properties of the nodes of the Bayesian network *)

\* the product over the incoming edges of a node whose parent is involved
\* of (1 - t), a healthy parent counting for 1; over FactorDen ^ Len(inc)
product_over_involved(name) ==
    Prod([k \in 1..Len(inc(name)) |->
            IF NodeState(lnl_state, inc(name)[k].parent) = 0 THEN FactorDen
            ELSE Unit * (Unit - spread_prob[inc(name)[k]])])

\* C26: bn_prob of a node in state 0 is the product over its incoming edges
\* with an involved parent of (1 - t), a parent in state 0 contributing the
\* factor 1; of a node in state 1 it is one minus that product; the two
\* values sum to 1 whatever the states of the parents
C26_BnProbOfANode ==
    last.op = "bn_prob"
    => LET name == last.kwargs[1]
           den == Pow(FactorDen, Len(inc(name)))
       IN  /\ lnl_state[name] = 0
                => last.result = <<product_over_involved(name)>>
           /\ lnl_state[name] = 1
                => last.result = <<den - product_over_involved(name)>>
           /\ bn_prob(name, spread_prob, [lnl_state EXCEPT ![name] = 0])
              + bn_prob(name, spread_prob, [lnl_state EXCEPT ![name] = 1])
                = den

\* an involved LNL III with the edges T -> III and II -> III, both with a
\* spread probability strictly between 0 and 1, and a healthy parent II
C26_Witness ==
    /\ last.op = "bn_prob"
    /\ last.kwargs = <<"III">>
    /\ Len(inc("III")) = 2
    /\ lnl_state = [II |-> 0, III |-> 1]
    /\ \A k \in 1..2 : spread_prob[inc("III")[k]] \in 1..(Unit - 1)
    /\ last.result[1] \in 1..(Pow(FactorDen, 2) - 1)

-----------------------------------------------------------------------------
(* Properties of the operations on the states of the LNLs *)

\* C27: comp_transition_prob with assign=True returns the probability it
\* returns with assign=False and leaves the LNLs in newstate, one entry per
\* LNL in the order of the graph; with assign=False it leaves the states of
\* the LNLs as they were
C27_TransitionProbAssigns ==
    last.op = "comp_transition_prob"
    => /\ last.kwargs[1][2]
            => /\ last.err = NoError
               /\ last.result
                    = <<comp_transition_prob(spread_prob, micro_mod,
                                             last.pre.state, last.args)>>
               /\ get_states(lnl_state) = last.args
       /\ ~last.kwargs[1][2] => lnl_state = last.pre.state

\* C28: after assign_states with one allowed state per LNL, positional and
\* in the order of the graph, get_states returns these states, except that
\* a keyword argument that names an LNL gives this LNL its own value; the
\* state of a tumor is never changed
C28_AssignStatesRoundTrip ==
    /\ last.op = "assign_states"
        => /\ \A t \in Range(tumors) : last.result[1][t] = tumor_state
           /\ /\ Len(last.args) = Len(lnls)
              /\ Range(last.args) \subseteq Range(allowed_states)
              /\ \A k \in 1..Len(last.kwargs) :
                    last.kwargs[k][2] \in Range(allowed_states)
              => /\ last.err = NoError
                 /\ \A k \in 1..Len(lnls) :
                        get_states(lnl_state)[k]
                            = IF \E i \in 1..Len(last.kwargs) :
                                     last.kwargs[i][1] = lnls[k]
                                 THEN last.kwargs[
                                          CHOOSE i \in 1..Len(last.kwargs) :
                                              last.kwargs[i][1] = lnls[k]][2]
                                 ELSE last.args[k]
    /\ last.op = "get_states"
        => last.result = <<[k \in 1..Len(lnls) |-> lnl_state[lnls[k]]]>>

\* both LNLs get a positional state and the keyword argument III gives III
\* another one
C28_Witness ==
    /\ last.op = "assign_states"
    /\ last.args = <<1, 0>>
    /\ last.kwargs = <<<<"III", 1>>>>
    /\ last.pre.state = [II |-> 0, III |-> 0]
    /\ lnl_state = [II |-> 1, III |-> 1]

-----------------------------------------------------------------------------
(* Properties of the range of the parameters *)

\* C29: the spread probability and the microscopic modifier of every edge
\* are in [0, 1] in every reachable state, whatever was written; a setter
\* that is given a value outside of [0, 1] raises and leaves the value of
\* the edge as it was
C29_ParametersStayInRange ==
    /\ \A e \in Range(edges) :
            InRange(spread_prob[e]) /\ InRange(micro_mod[e])
    /\ last.op \in {"set_spread_prob", "set_micro_mod"}
       /\ ~InRange(last.args[1])
        => /\ last.err = ValueError
           /\ spread_prob = last.pre.spread_prob
           /\ micro_mod = last.pre.micro_mod

\* a spread probability of 1 is written, then the setter refuses a value
\* above 1 and the edge keeps the 1
C29_Witness ==
    /\ last.op = "set_spread_prob"
    /\ last.args = <<Unit + 1>>
    /\ last.err = ValueError
    /\ \E e \in Range(edges) : spread_prob[e] = Unit

-----------------------------------------------------------------------------
(* Properties of the calls that read the model *)

\* C30: load_data, the likelihood of the stored data in either mode and the
\* risk, all without given_params, leave the states of the LNLs that
\* get_states returns, the parameters of the edges and the parameters of
\* the distributions as they were before the call
C30_ReadsLeaveTheModel ==
    [][last'.op \in {"load_data", "likelihood", "risk"}
        => /\ get_states(lnl_state') = get_states(lnl_state)
           /\ spread_prob' = spread_prob
           /\ micro_mod' = micro_mod
           /\ diag_time_dists' = diag_time_dists]_vars

====
